---- MODULE Spec2Model ----
(***************************************************************************)
(* A model of the bulk-loader core of outserv:                             *)
(*   - the SSTable builder (badger/table/builder.go),                      *)
(*   - the shard mapper and its spill tasks (boot mapper),                 *)
(*   - the index rebuilder (posting/index.go).                             *)
(* Each subsystem has its own variables and its own specification; the     *)
(* variables of the other subsystems stay at their initial value.          *)
(***************************************************************************)
EXTENDS Integers, Sequences, FiniteSets, TLC

(***************************************************************************)
(* Generic helpers                                                         *)
(***************************************************************************)
Range(s) == {s[i] : i \in 1..Len(s)}

\* s[from:to] with Go's 0-based, half-open slice bounds.
Slice(s, from, to) == [i \in 1..(to - from) |-> s[from + i]]

\* binary.BigEndian.PutUint16 / PutUint32 and their readers (0-based offsets).
BE16(x) == << (x % 65536) \div 256, x % 256 >>

BE32(x) == << (x \div 16777216) % 256, (x \div 65536) % 256, (x \div 256) % 256, x % 256 >>

U16(s, off) == s[off + 1] * 256 + s[off + 2]

U32(s, off) == s[off + 1] * 16777216 + s[off + 2] * 65536 + s[off + 3] * 256 + s[off + 4]

\* bytes.Compare(a, b) < 0, comparing from byte k on.
RECURSIVE bytesLessFrom(_, _, _)
bytesLessFrom(a, b, k) ==
    IF k > Len(b) THEN FALSE
    ELSE IF k > Len(a) THEN TRUE
    ELSE IF a[k] # b[k] THEN a[k] < b[k]
    ELSE bytesLessFrom(a, b, k + 1)

BytesLess(a, b) == bytesLessFrom(a, b, 1)

(***************************************************************************)
(* SSTable builder: badger/table/builder.go                                *)
(***************************************************************************)
\* Scaled-down table geometry (the source's defaults are 50 MiB and 100).
tableSize == 44
restartInterval == 2
\* Bounds of the exploration.
MaxAdds == 4

headerSize == 8

\* Keys and values offered to Add.
TableKeys == {<<1>>, <<1, 2>>, <<2>>}
TableValues == {<<>>, <<7>>}

VARIABLES
    builder,    \* the TableBuilder struct
    tbState,    \* "new" (zero value), "open" (after Reset), "finished", "crashed"
    tbOp,       \* the last call on the builder and what it returned
    nAdds       \* Add calls made so far (bounded by MaxAdds)

tbVars == <<builder, tbState, tbOp, nAdds>>

\* header.Encode
Encode(h) == BE16(h.plen) \o BE16(h.klen) \o BE16(h.vlen) \o BE16(h.prev)

\* header.Decode, reading at offset off of bytes
Decode(bytes, off) ==
    [plen |-> U16(bytes, off), klen |-> U16(bytes, off + 2),
     vlen |-> U16(bytes, off + 4), prev |-> U16(bytes, off + 6)]

\* The zero value of TableBuilder.
ZeroBuilder ==
    [counter |-> 0, buf |-> <<>>, pos |-> 0, baseKey |-> <<>>,
     restarts |-> <<>>, prevOffset |-> 0]

\* TableBuilder.Reset: the buffer is allocated once and then reused as it is;
\* prevOffset is not touched.
Reset(b) ==
    [b EXCEPT !.counter = 0,
              !.buf = IF Len(b.buf) < tableSize THEN [i \in 1..tableSize |-> 0] ELSE b.buf,
              !.pos = 0,
              !.baseKey = <<>>,
              !.restarts = <<>>]

\* TableBuilder.write: copy d at b.pos; the assertion fails when d does not fit.
writeFits(b, d) == b.pos + Len(d) <= Len(b.buf)

write(b, d) ==
    [b EXCEPT !.buf = [i \in 1..Len(b.buf) |->
                          IF i > b.pos /\ i <= b.pos + Len(d) THEN d[i - b.pos] ELSE b.buf[i]],
              !.pos = b.pos + Len(d)]

\* TableBuilder.keyDiff: newKey without its common prefix with baseKey.
RECURSIVE commonPrefixLen(_, _)
commonPrefixLen(a, c) ==
    IF Len(a) = 0 \/ Len(c) = 0 \/ a[1] # c[1] THEN 0
    ELSE 1 + commonPrefixLen(Tail(a), Tail(c))

keyDiffWholeKey(b, newKey) == newKey

keyDiff(b, newKey) ==
    Slice(newKey, commonPrefixLen(newKey, b.baseKey), Len(newKey))

\* TableBuilder.length
lengthNoRestarts(b) == b.pos + 6 + 8

length(b) == b.pos + 6 + 4 * Len(b.restarts) + 8

\* The restart step at the head of Add.
restartKeepsBase(b) ==
    IF b.counter >= restartInterval
    THEN [b EXCEPT !.restarts = Append(b.restarts, b.pos), !.counter = 0]
    ELSE b

restartLate(b) ==
    IF b.counter > restartInterval
    THEN [b EXCEPT !.restarts = Append(b.restarts, b.pos), !.counter = 0, !.baseKey = <<>>]
    ELSE b

restart(b) ==
    IF b.counter >= restartInterval
    THEN [b EXCEPT !.restarts = Append(b.restarts, b.pos), !.counter = 0, !.baseKey = <<>>]
    ELSE b

\* TableBuilder.Add: [b |-> the builder afterwards, err |-> table full,
\* panic |-> an assertion of write failed].
Add(b, key, value) ==
    IF Len(key) + Len(value) + length(b) > tableSize
    THEN [b |-> b, err |-> TRUE, panic |-> FALSE]
    ELSE
        LET b1 == restart(b)
            fresh == Len(b1.baseKey) = 0
            b2 == IF fresh THEN [b1 EXCEPT !.baseKey = key] ELSE b1
            diffKey == IF fresh THEN key ELSE keyDiff(b2, key)
            h == [plen |-> Len(key) - Len(diffKey), klen |-> Len(diffKey),
                  vlen |-> Len(value), prev |-> b2.prevOffset]
            b3 == [b2 EXCEPT !.prevOffset = b2.pos]
            rec == Encode(h) \o diffKey \o value
        IN IF ~writeFits(b3, rec)
           THEN [b |-> b3, err |-> FALSE, panic |-> TRUE]
           ELSE [b |-> [write(b3, rec) EXCEPT !.counter = b3.counter + 1],
                 err |-> FALSE, panic |-> FALSE]

\* TableBuilder.blockIndex: [b |-> builder with the end offset appended,
\* out |-> the encoded index].
RECURSIVE encodeOffsets(_)
encodeOffsets(rs) ==
    IF Len(rs) = 0 THEN <<>> ELSE BE32(rs[1]) \o encodeOffsets(Tail(rs))

blockIndexStaleCount(b) ==
    LET b1 == [b EXCEPT !.restarts = Append(b.restarts, b.pos)]
    IN [b |-> b1, out |-> encodeOffsets(b1.restarts) \o BE32(Len(b.restarts))]

blockIndex(b) ==
    LET b1 == [b EXCEPT !.restarts = Append(b.restarts, b.pos)]
    IN [b |-> b1, out |-> encodeOffsets(b1.restarts) \o BE32(Len(b1.restarts))]

\* TableBuilder.Finish: [b, out, panic, term |-> the terminator Add succeeded].
\* The slice returned is b.buf itself, not a copy.
Finish(b) ==
    LET a == Add(b, <<>>, <<>>)
        bi == blockIndex(a.b)
        newpos == tableSize - Len(bi.out)
        b1 == [bi.b EXCEPT !.pos = newpos]
    IN IF a.panic \/ ~(bi.b.pos <= newpos) \/ ~writeFits(b1, bi.out)
       THEN [b |-> bi.b, out |-> <<>>, panic |-> TRUE, term |-> ~a.err]
       ELSE LET b2 == write(b1, bi.out)
            IN [b |-> b2, out |-> b2.buf, panic |-> b2.pos # tableSize, term |-> ~a.err]

DoReset ==
    /\ tbState \in {"new", "finished"}
    /\ builder' = Reset(builder)
    /\ tbState' = "open"
    /\ tbOp' = [name |-> "Reset"]
    /\ UNCHANGED nAdds

DoAdd ==
    /\ tbState = "open"
    /\ nAdds < MaxAdds
    /\ \E key \in TableKeys, value \in TableValues :
         LET r == Add(builder, key, value)
         IN /\ builder' = r.b
            /\ tbState' = IF r.panic THEN "crashed" ELSE "open"
            /\ tbOp' = [name |-> "Add", key |-> key, value |-> value, err |-> r.err]
    /\ nAdds' = nAdds + 1

DoFinish ==
    /\ tbState = "open"
    /\ LET r == Finish(builder)
       IN /\ builder' = r.b
          /\ tbState' = IF r.panic THEN "crashed" ELSE "finished"
          /\ tbOp' = [name |-> "Finish", term |-> r.term]
    /\ UNCHANGED nAdds

(***************************************************************************)
(* Shard mapper: the bulk loader's mapper (src/unnamed/part_000)           *)
(***************************************************************************)
\* opt.MapShards = 2.
Shards == {0, 1}
\* opt.MapBufSize and opt.PartitionBufSize, in bytes, scaled down.
MapBufSize == 80
PartitionBufSize == 40
\* Batches the parser delivers before its channel is closed.
MaxBatches == 2

\* math.MaxUint64, scaled to the largest integer of the checker.
MaxUint64 == 2147483647

\* A 64-bit big-endian field; the model's numbers stay below 2^31.
BE64(x) == <<0, 0, 0, 0>> \o BE32(x)

U64(s, off) == U32(s, off + 4)

\* Characters.
ChUnderscore == 95
ChColon == 58
ChDot == 46
ChZero == 48
ChNine == 57

\* strconv.ParseUint(xid, 0, 64) for decimal literals: -1 stands for err != nil.
RECURSIVE parseDigits(_, _)
parseDigits(s, acc) ==
    IF Len(s) = 0 THEN acc
    ELSE IF s[1] < ChZero \/ s[1] > ChNine THEN -1
    ELSE parseDigits(Tail(s), acc * 10 + (s[1] - ChZero))

ParseUint(xid) == IF Len(xid) = 0 THEN -1 ELSE parseDigits(xid, 0)

\* strings.SplitN(s, ".", 2)[0]
RECURSIVE beforeDot(_)
beforeDot(s) ==
    IF Len(s) = 0 \/ s[1] = ChDot THEN <<>> ELSE <<s[1]>> \o beforeDot(Tail(s))

\* The type segment of a blank node "_:Type.local", "" for any other subject.
typOf(subject) ==
    IF Len(subject) >= 2 /\ subject[1] = ChUnderscore /\ subject[2] = ChColon
    THEN beforeDot(Slice(subject, 2, Len(subject)))
    ELSE <<>>

\* x.NamespaceAttr: the 8-byte namespace followed by the name.
NamespaceAttr(ns, name) == BE64(ns) \o name

\* Key codec (x.DataKey, x.IndexKey): a prefix byte, the length-prefixed
\* predicate, a key-type byte and the type's trailing bytes.
ByteDefault == 0
ByteData == 0
ByteIndex == 2

keyHead(attr) == <<ByteDefault>> \o BE16(Len(attr)) \o attr

DataKey(attr, uid) == keyHead(attr) \o <<ByteData>> \o BE64(uid)

IndexKey(attr, term) == keyHead(attr) \o <<ByteIndex>> \o term

\* The predicate a key was built for.
AttrOfKey(key) == Slice(key, 3, 3 + U16(key, 1))

\* state.shards.shardFor: hash of the predicate bytes modulo the shard count.
RECURSIVE sumBytes(_)
sumBytes(s) == IF Len(s) = 0 THEN 0 ELSE s[1] + sumBytes(Tail(s))

shardFor(attr) == sumBytes(attr) % Cardinality(Shards)

\* The schema the loader runs with (dqlSchema.getSchema, gqlSchema.Type):
\* T.k is a uid predicate whose inverse is T.b; T.t is an indexed scalar
\* string; T.l is a list of strings.
NameTb == <<84, 46, 98>>
NameTt == <<84, 46, 116>>
NameTl == <<84, 46, 108>>
TokTerm == 1

schemaList(name) == name = NameTl

schemaTokenizers(name) == IF name = NameTt THEN <<TokTerm>> ELSE <<>>

\* gqlType.Field(pred).Inverse().DgraphPredicate(): <<>> when there is none.
inverseOf(typ, pred) == IF typ = <<84>> /\ pred = <<107>> THEN NameTb ELSE <<>>

\* tok.BuildTokens: one token per word of the value, each led by the
\* tokenizer's identifier byte.
buildTokens(value, tokenizer) == [i \in 1..Len(value) |-> <<tokenizer, value[i]>>]

\* farm.Fingerprint64 of a value, scaled.
Fingerprint64(value) == 1000 + sumBytes(value)

\* The xid map (xids.AssignUid, xids.BumpPast): next is the next UID to
\* hand out.
xidsInit == [map |-> <<>>, next |-> 1]

xidIndex(xm, key) == {i \in 1..Len(xm.map) : xm.map[i].xid = key}

AssignUid(xm, key) ==
    IF xidIndex(xm, key) # {}
    THEN [xm |-> xm, uid |-> xm.map[CHOOSE i \in xidIndex(xm, key) : TRUE].uid]
    ELSE [xm |-> [map |-> Append(xm.map, [xid |-> key, uid |-> xm.next]),
                  next |-> xm.next + 1],
          uid |-> xm.next]

BumpPast(xm, uid) == IF xm.next <= uid THEN [xm EXCEPT !.next = uid + 1] ELSE xm

\* mapper.lookupUid
lookupUid(xm, xid, ns) == AssignUid(xm, NamespaceAttr(ns, xid))

\* mapper.uid: [xm |-> the xid map afterwards, uid |-> the UID]
uid(xm, xid, ns) ==
    IF ParseUint(xid) # -1
    THEN [xm |-> BumpPast(xm, ParseUint(xid)), uid |-> ParseUint(xid)]
    ELSE lookupUid(xm, xid, ns)

\* Postings: posting.NewPosting and its protobuf encoding. A nil posting has
\* size 0.
PostingRef == "REF"
PostingValue == "VALUE"
NilPosting == [nil |-> TRUE]

postingBytes(p) == IF p.nil THEN <<>> ELSE <<1>> \o p.value

postingSize(p) == Len(postingBytes(p))

\* mapEntrySize
mapEntrySize(key, p) == 8 + 4 + 4 + Len(key) + postingSize(p)

\* marshalMapEntry with the two size fields written in the other order.
marshalSizesSwapped(u, key, p) ==
    LET u1 == IF ~p.nil THEN p.uid ELSE u
    IN BE64(u1) \o BE32(postingSize(p)) \o BE32(Len(key)) \o key \o postingBytes(p)

\* marshalMapEntry: the bytes written into dst.
marshalMapEntry(u, key, p) ==
    LET u1 == IF ~p.nil THEN p.uid ELSE u
    IN BE64(u1) \o BE32(Len(key)) \o BE32(postingSize(p)) \o key \o postingBytes(p)

\* MapEntry.Uid, MapEntry.Key, MapEntry.Plist
meUid(me) == U64(me, 0)

meKey(me) == Slice(me, 16, 16 + U32(me, 8))

mePlist(me) == Slice(me, 16 + U32(me, 8), 16 + U32(me, 8) + U32(me, 12))

\* bytes.Compare(lhs.Key(), rhs.Key()) < 0, read in place from the two
\* entries (the key starts at offset 16): rhs has a byte k before which the
\* keys agree, and lhs either ends before k or has a smaller byte there.
keyLess(lhs, rhs) ==
    \E k \in 1..U32(rhs, 8) :
        /\ k <= U32(lhs, 8) + 1
        /\ \A m \in 1..(k - 1) : lhs[16 + m] = rhs[16 + m]
        /\ (k = U32(lhs, 8) + 1 \/ lhs[16 + k] < rhs[16 + k])

\* less: key bytes ascending, then uid ascending.
lessKeyOnly(lhs, rhs) == keyLess(lhs, rhs)

less(lhs, rhs) ==
    IF meKey(lhs) # meKey(rhs)
    THEN keyLess(lhs, rhs)
    ELSE meUid(lhs) < meUid(rhs)

\* z.Buffer: an arena is the sequence of the slices allocated in it; each
\* slice takes a 4-byte length prefix.
RECURSIVE LenNoPadding(_)
LenNoPadding(cbuf) ==
    IF Len(cbuf) = 0 THEN 0 ELSE 4 + Len(cbuf[1]) + LenNoPadding(Tail(cbuf))

\* cbuf.SortSlice(less): a stable sort; the slice at position i goes to the
\* place given by the number of slices that sort before it.
sortRank(cbuf, i) ==
    1 + Cardinality({j \in 1..Len(cbuf) :
                        \/ less(cbuf[j], cbuf[i])
                        \/ ~less(cbuf[i], cbuf[j]) /\ j < i})

SortSlice(cbuf) ==
    [r \in 1..Len(cbuf) |-> cbuf[CHOOSE i \in 1..Len(cbuf) : sortRank(cbuf, i) = r]]

\* The partition keys without the comparison against the last key taken.
RECURSIVE partitionKeysNoDedup(_, _, _)
partitionKeysNoDedup(cbuf, bufSize, keys) ==
    IF Len(cbuf) = 0 THEN keys
    ELSE LET me == cbuf[1]
             sz == bufSize + 4 + Len(me)
         IN IF sz < PartitionBufSize
            THEN partitionKeysNoDedup(Tail(cbuf), sz, keys)
            ELSE partitionKeysNoDedup(Tail(cbuf), 0, Append(keys, meKey(me)))

\* The partition keys of a sorted arena: the key of the first entry that
\* brings the running size to PartitionBufSize, unless it repeats the last
\* partition key.
RECURSIVE partitionKeys(_, _, _)
partitionKeys(cbuf, bufSize, keys) ==
    IF Len(cbuf) = 0 THEN keys
    ELSE LET me == cbuf[1]
             sz == bufSize + 4 + Len(me)
         IN IF sz < PartitionBufSize
            THEN partitionKeys(Tail(cbuf), sz, keys)
            ELSE IF Len(keys) > 0 /\ meKey(me) = keys[Len(keys)]
            THEN partitionKeys(Tail(cbuf), sz, keys)
            ELSE partitionKeys(Tail(cbuf), 0, Append(keys, meKey(me)))

\* opt.Namespace: math.MaxUint64 unless --force-namespace is given.
optNamespace == MaxUint64

\* The edges the parser may deliver. ObjectValue is <<>> for an edge that
\* carries an object identifier; a value is a type byte and its words.
XidA == <<95, 58, 84, 46, 97>>
XidB == <<95, 58, 84, 46, 98>>
Edges ==
    { [Subject |-> XidA, Predicate |-> <<107>>, ObjectId |-> <<57>>, ObjectValue |-> <<>>, Namespace |-> 0],
      [Subject |-> XidA, Predicate |-> <<107>>, ObjectId |-> <<51>>, ObjectValue |-> <<>>, Namespace |-> 0],
      [Subject |-> XidB, Predicate |-> <<116>>, ObjectId |-> <<>>, ObjectValue |-> <<9, 104, 119>>, Namespace |-> 0] }

\* strconv.FormatUint(i, 16)
RECURSIVE formatHex(_)
formatHex(i) ==
    LET d == i % 16
        ch == IF d < 10 THEN ChZero + d ELSE 97 + (d - 10)
    IN IF i < 16 THEN <<ch>> ELSE formatHex(i \div 16) \o <<ch>>

\* x.ToHexString
ToHexString(i) == <<ChZero, 120>> \o formatHex(i)

\* x.FromHex: 0 for the empty string; an optional "0x" is skipped and the
\* rest is read in base 16.
RECURSIVE parseHex(_, _)
parseHex(str, acc) ==
    IF Len(str) = 0 THEN acc
    ELSE parseHex(Tail(str),
                  acc * 16 + (IF str[1] <= ChNine THEN str[1] - ChZero ELSE str[1] - 97 + 10))

FromHex(str) ==
    IF Len(str) = 0 THEN 0
    ELSE IF Len(str) >= 2 /\ str[1] = ChZero /\ str[2] \in {120, 88}
         THEN parseHex(Slice(str, 2, Len(str)), 0)
         ELSE parseHex(str, 0)

\* mapper.createPostings: the forward posting of a (resolved) edge.
createPostings(de) ==
    IF Len(de.ObjectValue) = 0
    THEN [nil |-> FALSE, uid |-> FromHex(de.ObjectId), type |-> PostingRef, value |-> <<>>]
    ELSE [nil |-> FALSE,
          uid |-> IF schemaList(Slice(de.Predicate, 8, Len(de.Predicate)))
                  THEN Fingerprint64(de.ObjectValue) ELSE MaxUint64,
          type |-> PostingValue, value |-> de.ObjectValue]

\* mapper.addMapEntry: the entry and the shard it is allocated in.
addMapEntry(key, p, shard) ==
    LET p1 == IF p.type # PostingRef THEN p ELSE NilPosting
    IN [shard |-> shard, me |-> marshalMapEntry(p.uid, key, p1)]

\* mapper.addIndexMapEntries: one entry per token of a value edge.
addIndexMapEntries(de) ==
    IF Len(de.ObjectValue) = 0 THEN <<>>
    ELSE LET toks == schemaTokenizers(Slice(de.Predicate, 8, Len(de.Predicate)))
             terms == IF Len(toks) = 0 THEN <<>>
                      ELSE buildTokens(Tail(de.ObjectValue), toks[1])
         IN [i \in 1..Len(terms) |->
                addMapEntry(IndexKey(de.Predicate, terms[i]),
                            [nil |-> FALSE, uid |-> FromHex(de.Subject), type |-> PostingRef, value |-> <<>>],
                            shardFor(de.Predicate))]

\* createEntries of processNQuad: the forward entry, then the index entries.
createEntriesObjectKey(de) ==
    <<addMapEntry(DataKey(de.Predicate, FromHex(de.ObjectId)), createPostings(de),
                  shardFor(de.Predicate))>>
        \o addIndexMapEntries(de)

createEntries(de) ==
    <<addMapEntry(DataKey(de.Predicate, FromHex(de.Subject)), createPostings(de),
                  shardFor(de.Predicate))>>
        \o addIndexMapEntries(de)

\* mapper.processNQuad: [xm |-> the xid map afterwards, entries |-> the
\* entries added, in order, panic |-> a subject or object resolved to UID 0].
processNQuad(xm, nq) ==
    LET ns == IF optNamespace # MaxUint64 THEN optNamespace ELSE nq.Namespace
        typ == typOf(nq.Subject)
        s == uid(xm, nq.Subject, ns)
        isRef == Len(nq.ObjectValue) = 0
        o == IF isRef THEN uid(s.xm, nq.ObjectId, ns) ELSE [xm |-> s.xm, uid |-> 0]
        attr == NamespaceAttr(ns, typ \o <<ChDot>> \o nq.Predicate)
        de == [Subject |-> ToHexString(s.uid), Predicate |-> attr,
               ObjectId |-> IF isRef THEN ToHexString(o.uid) ELSE <<>>,
               ObjectValue |-> nq.ObjectValue]
        inv == inverseOf(typ, nq.Predicate)
        re == [Subject |-> ToHexString(o.uid), Predicate |-> NamespaceAttr(ns, inv),
               ObjectId |-> ToHexString(s.uid), ObjectValue |-> <<>>]
    IN IF s.uid = 0 THEN [xm |-> s.xm, entries |-> <<>>, panic |-> TRUE]
       ELSE IF isRef /\ o.uid = 0 THEN [xm |-> o.xm, entries |-> <<>>, panic |-> TRUE]
       ELSE [xm |-> o.xm,
             entries |-> createEntries(de) \o (IF Len(inv) > 0 THEN createEntries(re) ELSE <<>>),
             panic |-> FALSE]

VARIABLES
    pc,         \* where run() stands: [at, i]
    shards,     \* shards[i] = [cbuf |-> the arena, mu |-> the mutex is held]
    spills,     \* the writeMapEntriesToFile executions in progress; handed is
                \* the arena as it was when the spill started
    files,      \* the map files, by <<shard, file number>>; arena is the
                \* arena the file was written from, as handed to the spill,
                \* spill the id of the spill that opened it
    mapFileId,  \* the file counter of the mapper
    xids,       \* the xid map
    delivered,  \* batches received so far
    added,      \* added[i]: every entry allocated in an arena of shard i, in order
    nSpills,    \* spills started so far
    swaps       \* swaps[i]: the arena swaps of shard i at the threshold, and the
                \* entries they handed over: [n, entries]

mapperVars == <<pc, shards, spills, files, mapFileId, xids, delivered, added, nSpills, swaps>>

NumShards == Cardinality(Shards)

\* The entries of es that go to shard i, in order.
RECURSIVE entriesFor(_, _)
entriesFor(es, i) ==
    IF Len(es) = 0 THEN <<>>
    ELSE (IF es[1].shard = i THEN <<es[1].me>> ELSE <<>>) \o entriesFor(Tail(es), i)

\* sh.mu.Lock() returns only when the mutex is free.
canLockAlways(sh) == TRUE

canLock(sh) == ~sh.mu

\* The threshold test of the batch loop and the test of the final loop.
needsSpill(sh) == LenNoPadding(sh.cbuf) >= MapBufSize

finalNeedsSpillAtThreshold(sh) == LenNoPadding(sh.cbuf) >= MapBufSize

\* The final loop spilling every arena, an empty one too.
finalNeedsSpillAlways(sh) == LenNoPadding(sh.cbuf) >= 0

finalNeedsSpill(sh) == LenNoPadding(sh.cbuf) > 0

\* The final loop's second Lock, which waits for the shard's last spill.
finalLockSkipped(sh) == TRUE

finalLockReady(sh) == canLock(sh)

newSpill(i, cbuf, sync) ==
    [id |-> nSpills + 1, shard |-> i, cbuf |-> cbuf, at |-> "sort", num |-> 0, sync |-> sync,
     handed |-> cbuf]

\* for nqs := range nquads.Ch(): one batch is processed.
Recv ==
    /\ pc.at = "recv"
    /\ delivered < MaxBatches
    /\ \E nq \in Edges :
         LET r == processNQuad(xids, nq)
         IN /\ xids' = r.xm
            /\ shards' = [i \in Shards |->
                             [shards[i] EXCEPT !.cbuf = @ \o entriesFor(r.entries, i)]]
            /\ added' = [i \in Shards |-> added[i] \o entriesFor(r.entries, i)]
            /\ pc' = IF r.panic THEN [at |-> "panic", i |-> 0] ELSE [at |-> "check", i |-> 0]
    /\ delivered' = delivered + 1
    /\ UNCHANGED <<spills, files, mapFileId, nSpills, swaps>>

\* The channel is closed: the batch loop ends.
CloseInput ==
    /\ pc.at = "recv"
    /\ pc' = [at |-> "final", i |-> 0]
    /\ UNCHANGED <<shards, spills, files, mapFileId, xids, delivered, added, nSpills, swaps>>

nextCheck(i) == IF i + 1 < NumShards THEN [at |-> "check", i |-> i + 1] ELSE [at |-> "recv", i |-> 0]

\* The round without sh.cbuf = newMapperBuffer(m.opt): the shard keeps the
\* arena it has handed over.
CheckShardKeepsArena ==
    /\ pc.at = "check"
    /\ LET i == pc.i
           sh == shards[i]
       IN IF needsSpill(sh)
          THEN /\ canLock(sh)
               /\ spills' = spills \cup {newSpill(i, sh.cbuf, FALSE)}
               /\ nSpills' = nSpills + 1
               /\ shards' = [shards EXCEPT ![i].mu = TRUE]
               /\ swaps' = [swaps EXCEPT ![i] = [n |-> @.n + 1,
                                                  entries |-> @.entries + Len(sh.cbuf)]]
          ELSE UNCHANGED <<shards, spills, nSpills, swaps>>
    /\ pc' = nextCheck(pc.i)
    /\ UNCHANGED <<files, mapFileId, xids, delivered, added>>

\* One round of the loop over the shards after a batch.
CheckShard ==
    /\ pc.at = "check"
    /\ LET i == pc.i
           sh == shards[i]
       IN IF needsSpill(sh)
          THEN /\ canLock(sh)
               /\ spills' = spills \cup {newSpill(i, sh.cbuf, FALSE)}
               /\ nSpills' = nSpills + 1
               /\ shards' = [shards EXCEPT ![i] = [cbuf |-> <<>>, mu |-> TRUE]]
               /\ swaps' = [swaps EXCEPT ![i] = [n |-> @.n + 1,
                                                  entries |-> @.entries + Len(sh.cbuf)]]
          ELSE UNCHANGED <<shards, spills, nSpills, swaps>>
    /\ pc' = nextCheck(pc.i)
    /\ UNCHANGED <<files, mapFileId, xids, delivered, added>>

\* The final loop's first half: spill what is left, in this task.
FinalShard ==
    /\ pc.at = "final"
    /\ LET i == pc.i
           sh == shards[i]
       IN IF finalNeedsSpill(sh)
          THEN /\ canLock(sh)
               /\ spills' = spills \cup {newSpill(i, sh.cbuf, TRUE)}
               /\ nSpills' = nSpills + 1
               /\ shards' = [shards EXCEPT ![i].mu = TRUE]
               /\ pc' = [at |-> "finalSpill", i |-> i]
          ELSE /\ shards' = [shards EXCEPT ![i].cbuf = <<>>]
               /\ pc' = [at |-> "finalLock", i |-> i]
               /\ UNCHANGED <<spills, nSpills>>
    /\ UNCHANGED <<files, mapFileId, xids, delivered, added, swaps>>

\* The final loop's second half: wait for the shard's last file write.
FinalLock ==
    /\ pc.at = "finalLock"
    /\ finalLockReady(shards[pc.i])
    /\ shards' = [shards EXCEPT ![pc.i].mu = TRUE]
    /\ pc' = IF pc.i + 1 < NumShards THEN [at |-> "final", i |-> pc.i + 1]
             ELSE [at |-> "done", i |-> 0]
    /\ UNCHANGED <<spills, files, mapFileId, xids, delivered, added, nSpills, swaps>>

\* writeMapEntriesToFile, step by step.
moveSpill(t, at) == (spills \ {t}) \cup {[t EXCEPT !.at = at]}

SpillSort ==
    \E t \in spills :
        /\ t.at = "sort"
        /\ spills' = (spills \ {t}) \cup {[t EXCEPT !.at = "open", !.cbuf = SortSlice(t.cbuf)]}
        /\ UNCHANGED <<pc, shards, files, mapFileId, xids, delivered, added, nSpills, swaps>>

\* A file number counted per shard directory.
fileNumPerShard(shardIdx) == Cardinality({f \in DOMAIN files : f[1] = shardIdx}) + 1

\* atomic.AddUint32(&m.mapFileId, 1): the new value of the counter, which
\* the spills of a run never bring near the 32 bits it holds.
fileNum(shardIdx) == mapFileId + 1

\* openOutputFile: the counter is bumped atomically; the file is created or
\* truncated.
SpillOpen ==
    \E t \in spills :
        /\ t.at = "open"
        /\ mapFileId' = mapFileId + 1
        /\ files' = (<<t.shard, fileNum(t.shard)>> :>
                        [header |-> <<>>, records |-> <<>>, state |-> "open",
                         arena |-> t.handed, spill |-> t.id]) @@ files
        /\ spills' = (spills \ {t}) \cup {[t EXCEPT !.at = "write", !.num = fileNum(t.shard)]}
        /\ UNCHANGED <<pc, shards, xids, delivered, added, nSpills, swaps>>

\* The header with the partition keys, then every record of the arena.
SpillWrite ==
    \E t \in spills :
        /\ t.at = "write"
        /\ files' = [files EXCEPT ![<<t.shard, t.num>>] =
                        [header |-> partitionKeys(t.cbuf, 0, <<>>), records |-> t.cbuf,
                         state |-> "written", arena |-> t.handed, spill |-> t.id]]
        /\ spills' = moveSpill(t, "wclose")
        /\ UNCHANGED <<pc, shards, mapFileId, xids, delivered, added, nSpills, swaps>>

\* The deferred calls, last registered first: w.Close, f.Sync, f.Close, then
\* the mutex and the arena.
SpillWClose ==
    \E t \in spills :
        /\ t.at = "wclose"
        /\ files' = [files EXCEPT ![<<t.shard, t.num>>].state = "flushed"]
        /\ spills' = moveSpill(t, "sync")
        /\ UNCHANGED <<pc, shards, mapFileId, xids, delivered, added, nSpills, swaps>>

SpillSyncSkipsClose ==
    \E t \in spills :
        /\ t.at = "sync"
        /\ files' = [files EXCEPT ![<<t.shard, t.num>>].state = "synced"]
        /\ spills' = moveSpill(t, "unlock")
        /\ UNCHANGED <<pc, shards, mapFileId, xids, delivered, added, nSpills, swaps>>

SpillSync ==
    \E t \in spills :
        /\ t.at = "sync"
        /\ files' = [files EXCEPT ![<<t.shard, t.num>>].state = "synced"]
        /\ spills' = moveSpill(t, "fclose")
        /\ UNCHANGED <<pc, shards, mapFileId, xids, delivered, added, nSpills, swaps>>

SpillFClose ==
    \E t \in spills :
        /\ t.at = "fclose"
        /\ files' = [files EXCEPT ![<<t.shard, t.num>>].state = "closed"]
        /\ spills' = moveSpill(t, "unlock")
        /\ UNCHANGED <<pc, shards, mapFileId, xids, delivered, added, nSpills, swaps>>

SpillUnlock ==
    \E t \in spills :
        /\ t.at = "unlock"
        /\ shards' = [shards EXCEPT ![t.shard].mu = FALSE]
        /\ spills' = moveSpill(t, "release")
        /\ UNCHANGED <<pc, files, mapFileId, xids, delivered, added, nSpills, swaps>>

\* cbuf.Release(); a spill run by the final loop returns to it.
SpillRelease ==
    \E t \in spills :
        /\ t.at = "release"
        /\ spills' = spills \ {t}
        /\ pc' = IF t.sync THEN [at |-> "finalLock", i |-> t.shard] ELSE pc
        /\ IF t.sync
           THEN shards' = [shards EXCEPT ![t.shard].cbuf = <<>>]
           ELSE UNCHANGED shards
        /\ UNCHANGED <<files, mapFileId, xids, delivered, added, nSpills, swaps>>

SpillStep ==
    \/ SpillSort \/ SpillOpen \/ SpillWrite \/ SpillWClose
    \/ SpillSync \/ SpillFClose \/ SpillUnlock \/ SpillRelease

(***************************************************************************)
(* Index rebuild (rebuilder.Run)                                           *)
(***************************************************************************)
\* The posting lists the primary store holds for the predicate: MaxDataKeys
\* data keys, each with the words its value is indexed under.
MaxDataKeys == 2

\* The number of entries a write batch holds before it commits them.
WriteBatchCap == 1

BitDeltaPosting == 1
BitCompletePosting == 2

\* r.startTs: the timestamp the rebuild runs at, 0 when nothing was assigned
\* yet.
StartTimestamps == {0, 5}

rbAttr == NamespaceAttr(0, NameTt)

DataUids == 1..MaxDataKeys

wordOf(u) == 100 + (u % 3)

\* A word that the values of several data keys share.
CommonWord == 200

\* The words r.fn indexes the posting list of data key u under.
wordsOf(u) == {wordOf(u)} \cup (IF u % 3 = 0 THEN {} ELSE {CommonWord})

\* pstore before the rebuild: one complete posting list per data key.
pstoreInit ==
    {[Key |-> DataKey(rbAttr, u), Value |-> wordsOf(u),
      UserMeta |-> BitCompletePosting, Version |-> 1] : u \in DataUids}

VARIABLES
    rb,       \* the call of rebuilder.Run: position, fields and locals
    pstore,   \* the entries committed to the primary store
    tmpDB     \* the entries committed to the temporary store

rbVars == <<rb, pstore, tmpDB>>

\* badger.WriteBatch: entries are collected in a batch; a batch that is full
\* is committed to the store when the next entry arrives, and Flush commits
\* what is left.
NewWriteBatch == <<>>

batchFull(wb) == Len(wb) >= WriteBatchCap

SetEntryAt(wb, e, ts) ==
    LET at == [e EXCEPT !.Version = ts]
    IN IF batchFull(wb)
       THEN [wb |-> <<at>>, commit |-> Range(wb)]
       ELSE [wb |-> Append(wb, at), commit |-> {}]

\* WriteBatch.Write(buf): every KV of the buffer at its own version.
RECURSIVE wbWrite(_, _)
wbWrite(wb, kvs) ==
    IF Len(kvs) = 0 THEN [wb |-> wb, commit |-> {}]
    ELSE LET one == SetEntryAt(wb, kvs[1], kvs[1].Version)
             rest == wbWrite(one.wb, Tail(kvs))
         IN [wb |-> rest.wb, commit |-> one.commit \cup rest.commit]

Flush(wb) == Range(wb)

\* r.fn with txn.Update: txn.cache.deltas of one data key, a map from index
\* key to the delta, here one posting; r.fn sets the posting or, for the
\* data keys whose postings it removes, deletes it.
deltaOp(u) == IF u % 2 = 0 THEN "del" ELSE "set"

indexDeltas(u) ==
    [key \in {IndexKey(rbAttr, <<TokTerm, w>>) : w \in wordsOf(u)} |->
        {[uid |-> u, op |-> deltaOp(u)]}]

\* The counter taken once more and never advanced.
addUint64Stuck(counter) == counter

\* atomic.AddUint64(&counter, 1): the new value.
AddUint64(counter) == counter + 1

\* pass 1, stream.KeyToList: the KV of one delta at the version taken for it.
deltaKV(key, data, version) ==
    [Key |-> key, Value |-> data, UserMeta |-> BitDeltaPosting, Version |-> version]

\* pass 2, tmpStream.KeyToList: ReadPostingList and Rollup of one key of the
\* temporary store, read at version counter.
\* The delta at the stream's own version is not read.
rollupBelowCounter(key, counter) ==
    LET deltas == {d \in tmpDB : d.Key = key /\ d.Version < counter}
        postings == UNION {d.Value : d \in deltas}
    IN <<[Key |-> key, Value |-> {p.uid : p \in {q \in postings : q.op = "set"}},
          UserMeta |-> BitCompletePosting, Version |-> 0]>>

Rollup(key, counter) ==
    LET deltas == {d \in tmpDB : d.Key = key /\ d.Version <= counter}
        postings == UNION {d.Value : d \in deltas}
    IN <<[Key |-> key, Value |-> {p.uid : p \in {q \in postings : q.op = "set"}},
          UserMeta |-> BitCompletePosting, Version |-> 0]>>

\* Every rollup is set, the empty ones too.
RECURSIVE sendRollupsNoSkip(_, _, _)
sendRollupsNoSkip(wb, kvs, startTs) ==
    IF Len(kvs) = 0 THEN [wb |-> wb, commit |-> {}]
    ELSE LET one == SetEntryAt(wb, kvs[1], startTs)
             rest == sendRollupsNoSkip(one.wb, Tail(kvs), startTs)
         IN [wb |-> rest.wb, commit |-> one.commit \cup rest.commit]

\* tmpStream.Send: the KVs with a value are set at startTs.
RECURSIVE sendRollups(_, _, _)
sendRollups(wb, kvs, startTs) ==
    IF Len(kvs) = 0 THEN [wb |-> wb, commit |-> {}]
    ELSE IF kvs[1].Value = {} THEN sendRollups(wb, Tail(kvs), startTs)
    ELSE LET one == SetEntryAt(wb, kvs[1], startTs)
             rest == sendRollups(one.wb, Tail(kvs), startTs)
         IN [wb |-> rest.wb, commit |-> one.commit \cup rest.commit]

rbInit(ts) ==
    [pc |-> "start", startTs |-> ts, ctxDone |-> FALSE, tmpDir |-> FALSE, err |-> "nil",
     tmpOpen |-> FALSE, made |-> {}, defers |-> <<>>, cleanup |-> <<>>,
     counter |-> 1, tmpWriter |-> NewWriteBatch, writer |-> NewWriteBatch,
     todo1 |-> {}, running |-> {}, lists |-> {}, readTs |-> 0, todo2 |-> {}]

\* The deferred calls run in the order they were registered.
runDeferredInOrder(defers) == defers

\* The deferred calls of a returning function run last registered first.
runDeferred(defers) == [k \in 1..Len(defers) |-> defers[Len(defers) + 1 - k]]

\* The state of the temporary store and directory after the calls made, one
\* after the other: tmpDB.Close() and os.RemoveAll(tmpIndexDir).
RECURSIVE afterCalls(_, _)
afterCalls(st, calls) ==
    IF Len(calls) = 0 THEN st
    ELSE afterCalls(IF calls[1] = "tmpDB.Close" THEN [st EXCEPT !.tmpOpen = FALSE]
                    ELSE [st EXCEPT !.tmpDir = FALSE],
                    Tail(calls))

\* return err: the deferred tmpDB.Close and os.RemoveAll run.
rbReturnWith(r, to) ==
    LET calls == runDeferred(r.defers)
        st == afterCalls([tmpOpen |-> r.tmpOpen, tmpDir |-> r.tmpDir], calls)
    IN [r EXCEPT !.pc = to, !.tmpDir = st.tmpDir, !.tmpOpen = st.tmpOpen,
                 !.defers = <<>>, !.cleanup = calls, !.running = {}, !.lists = {}]

rbReturn(to) == rbReturnWith(rb, to)

\* The caller cancels ctx while Run is executing.
Cancel ==
    /\ rb.pc \in {"start", "pass1", "flush1", "pass2", "flush2"}
    /\ ~rb.ctxDone
    /\ rb' = [rb EXCEPT !.ctxDone = TRUE]
    /\ UNCHANGED <<pstore, tmpDB>>

\* Run is called on a rebuilder whose startTs is ts, and runs up to
\* stream.Orchestrate: nothing to do at startTs 0; ioutil.TempDir and
\* badger.Open can fail.
RunStart ==
    /\ rb.pc = "start"
    /\ \E ts \in StartTimestamps, fails \in {"none", "ioutil.TempDir", "badger.Open"} :
         rb' = IF ts = 0 THEN [rb EXCEPT !.pc = "done", !.startTs = ts]
               ELSE IF fails = "ioutil.TempDir"
               THEN [rbReturn("failed") EXCEPT !.startTs = ts, !.err = "error"]
               ELSE IF fails = "badger.Open"
               THEN [rbReturnWith([rb EXCEPT !.tmpDir = TRUE, !.made = {"dir"},
                                             !.defers = <<"os.RemoveAll">>], "failed")
                        EXCEPT !.startTs = ts, !.err = "error"]
               ELSE [rb EXCEPT !.pc = "pass1", !.startTs = ts, !.tmpDir = TRUE,
                               !.tmpOpen = TRUE, !.made = {"dir", "store"},
                               !.defers = <<"os.RemoveAll", "tmpDB.Close">>,
                               !.counter = 1, !.tmpWriter = NewWriteBatch,
                               !.todo1 = DataUids]
    /\ UNCHANGED <<pstore, tmpDB>>

\* The context is never looked at.
errOfIgnoresCtx(ctxDone, ok) == IF ~ok THEN "error" ELSE "nil"

\* select { case <-ctx.Done(): return nil, ctx.Err() default: }, then the
\* work of the callback, which can fail: the error handed to Run.
errOf(ctxDone, ok) == IF ctxDone THEN "Canceled" ELSE IF ~ok THEN "error" ELSE "nil"

\* stream.Orchestrate(ctx) of the store: it looks at ctx before it hands the
\* next key to KeyToList, whose own work can fail.
orchestrateErr(ctxDone, ok) == IF ctxDone THEN "Canceled" ELSE IF ~ok THEN "error" ELSE "nil"

\* Pass 1, KeyToList is called for one key of the stream, concurrently with
\* the calls for other keys: it gives up on a cancelled ctx or an unreadable
\* list; otherwise r.fn is called for the key.
Pass1Key ==
    /\ rb.pc = "pass1"
    /\ \E u \in rb.todo1, ok \in BOOLEAN :
         IF errOf(rb.ctxDone, ok) # "nil"
         THEN /\ rb' = [rbReturn("failed") EXCEPT !.err = errOf(rb.ctxDone, ok)]
              /\ tmpDB' = {}
         ELSE /\ rb' = [rb EXCEPT !.todo1 = @ \ {u},
                                  !.running = @ \cup {[u |-> u, left |-> DOMAIN indexDeltas(u),
                                                        kvs |-> <<>>, fn |-> "mutate",
                                                        retries |-> 0]}]
              /\ UNCHANGED tmpDB
    /\ UNCHANGED pstore

\* One round of the loop over txn.cache.deltas in one of the running calls:
\* the next delta, in the order of the map, takes a version from counter;
\* after the last one the call returns its list.
Pass1Delta ==
    /\ rb.pc = "pass1"
    /\ \E call \in rb.running : \E key \in call.left :
         /\ call.fn = "returned"
         /\ LET version == AddUint64(rb.counter)
                kvs == Append(call.kvs, deltaKV(key, indexDeltas(call.u)[key], version))
                next == [call EXCEPT !.left = @ \ {key}, !.kvs = kvs]
            IN rb' = [rb EXCEPT !.counter = version,
                                !.running = (@ \ {call}) \cup
                                            (IF next.left = {} THEN {} ELSE {next}),
                                !.lists = IF next.left = {} THEN @ \cup {kvs} ELSE @]
    /\ UNCHANGED <<pstore, tmpDB>>

\* stream.Send for one of the returned lists: tmpWriter.Write, which can fail.
Pass1Send ==
    /\ rb.pc = "pass1"
    /\ \E kvs \in rb.lists, ok \in BOOLEAN :
         IF ~ok
         THEN /\ rb' = [rbReturn("failed") EXCEPT !.err = "error"]
              /\ tmpDB' = {}
         ELSE LET w == wbWrite(rb.tmpWriter, kvs)
              IN /\ rb' = [rb EXCEPT !.lists = @ \ {kvs}, !.tmpWriter = w.wb]
                 /\ tmpDB' = tmpDB \cup w.commit
    /\ UNCHANGED pstore

\* stream.Orchestrate returns once every key went through KeyToList and
\* Send; then tmpWriter.Flush(), and tmpStream is opened at counter.
Pass1Flush ==
    /\ rb.pc = "pass1"
    /\ rb.todo1 = {} /\ rb.running = {} /\ rb.lists = {}
    /\ \E ok \in BOOLEAN :
         IF ~ok
         THEN /\ rb' = [rbReturn("failed") EXCEPT !.err = "error"]
              /\ tmpDB' = {}
         ELSE /\ tmpDB' = tmpDB \cup Flush(rb.tmpWriter)
              /\ rb' = [rb EXCEPT !.pc = "pass2", !.tmpWriter = NewWriteBatch,
                                  !.writer = NewWriteBatch, !.readTs = rb.counter,
                                  !.todo2 = {kv.Key : kv \in tmpDB \cup Flush(rb.tmpWriter)}]
    /\ UNCHANGED pstore

\* Pass 2, one key of tmpStream: the rollup of its deltas is set in writer at
\* startTs; the orchestrator stops on a cancelled ctx, SetEntryAt can fail.
Pass2Key ==
    /\ rb.pc = "pass2"
    /\ \E key \in rb.todo2, ok \in BOOLEAN :
         IF orchestrateErr(rb.ctxDone, ok) # "nil"
         THEN /\ rb' = [rbReturn("failed") EXCEPT !.err = orchestrateErr(rb.ctxDone, ok)]
              /\ tmpDB' = {}
              /\ UNCHANGED pstore
         ELSE LET w == sendRollups(rb.writer, Rollup(key, rb.readTs), rb.startTs)
              IN /\ rb' = [rb EXCEPT !.todo2 = @ \ {key}, !.writer = w.wb]
                 /\ pstore' = pstore \cup w.commit
                 /\ UNCHANGED tmpDB

\* tmpStream.Orchestrate returns, then return writer.Flush().
Pass2Flush ==
    /\ rb.pc = "pass2"
    /\ rb.todo2 = {}
    /\ \E ok \in BOOLEAN :
         IF ~ok
         THEN /\ rb' = [rbReturn("failed") EXCEPT !.err = "error"]
              /\ UNCHANGED pstore
         ELSE /\ rb' = [rbReturn("done") EXCEPT !.writer = NewWriteBatch]
              /\ pstore' = pstore \cup Flush(rb.writer)
    /\ tmpDB' = {}

(***************************************************************************)
(* Index rebuild run again (rebuilder.Run called a second time)            *)
(***************************************************************************)
\* The number of times Run is called with the same inputs.
MaxRuns == 2

VARIABLES
    runs,         \* the calls of Run started so far beyond the first
    firstResult   \* what the primary store held at startTs when Run was called again

rerunVars == <<runs, firstResult>>

\* The (key, value) pairs the primary store holds at version startTs.
AtStartTs == {<<e.Key, e.Value>> : e \in {x \in pstore : x.Version = rb.startTs}}

\* Run has returned nil and is called again on the same rebuilder: same
\* startTs, same r.fn, the primary store as the last run left it.
RunAgain ==
    /\ rb.pc = "done"
    /\ rb.startTs # 0
    /\ runs + 1 < MaxRuns
    /\ \E ok \in BOOLEAN :
         rb' = IF ~ok THEN [rbReturn("failed") EXCEPT !.err = "error", !.made = {}]
               ELSE [rbInit(rb.startTs) EXCEPT !.pc = "pass1", !.tmpDir = TRUE,
                                               !.tmpOpen = TRUE, !.made = {"dir", "store"},
                                               !.defers = <<"os.RemoveAll", "tmpDB.Close">>,
                                               !.todo1 = DataUids]
    /\ runs' = runs + 1
    /\ firstResult' = AtStartTs
    /\ UNCHANGED <<pstore, tmpDB>>

(***************************************************************************)
(* UID assignment (mapper.uid called directly)                             *)
(***************************************************************************)
\* The calls made: at most MaxUidCalls, each with one of these identifiers
\* ("0", "1", "2", "a", "b") in one of these namespaces.
MaxUidCalls == 3

UidXids == {<<48>>, <<49>>, <<50>>, <<97>>, <<98>>}

UidNamespaces == {0, 1}

VARIABLES
    uidXids,   \* the xid map the calls share
    uidCalls   \* the calls made so far, in order: [xid, ns, uid]

uidVars == <<uidXids, uidCalls>>

\* m.uid(xid, ns)
CallUid ==
    /\ Len(uidCalls) < MaxUidCalls
    /\ \E xid \in UidXids, ns \in UidNamespaces :
         LET r == uid(uidXids, xid, ns)
         IN /\ uidXids' = r.xm
            /\ uidCalls' = Append(uidCalls, [xid |-> xid, ns |-> ns, uid |-> r.uid])

(***************************************************************************)
(* Map entry codec (marshalMapEntry called directly)                       *)
(***************************************************************************)
\* The arguments offered to marshalMapEntry.
MarshalUids == {0, 1, 7, MaxUint64}

MarshalKeys == {<<>>, <<1>>, <<1, 2>>, <<0, 0, 255>>, DataKey(<<116>>, 7)}

MarshalPostings ==
    {NilPosting} \cup
    {[nil |-> FALSE, uid |-> u, type |-> PostingValue, value |-> v] :
        u \in {7, MaxUint64}, v \in {<<>>, <<9>>, <<9, 104, 119>>}}

VARIABLES
    meOp   \* the last marshalMapEntry call: its arguments, dst and mapEntrySize

meVars == <<meOp>>

\* sz := mapEntrySize(key, p); dst := SliceAllocate(sz); marshalMapEntry(dst, uid, key, p)
DoMarshal ==
    \E u \in MarshalUids, key \in MarshalKeys, p \in MarshalPostings :
        meOp' = [name |-> "marshal", uid |-> u, key |-> key, p |-> p,
                 size |-> mapEntrySize(key, p), dst |-> marshalMapEntry(u, key, p)]

(***************************************************************************)
(* Index rebuild decisions (IndexRebuild)                                  *)
(***************************************************************************)
\* pb.SchemaUpdate: directive, value type, tokenizer names, count flag.
\* NilSchema is a nil OldSchema, EmptySchema is &pb.SchemaUpdate{}.
NilSchema == [nil |-> TRUE]

EmptySchema ==
    [nil |-> FALSE, Directive |-> "NONE", ValueType |-> "DEFAULT",
     Tokenizer |-> <<>>, Count |-> FALSE]

TokenizerLists ==
    {<<>>, <<"term">>, <<"exact">>, <<"term", "exact">>, <<"exact", "term">>}

Schemas ==
    [nil : {FALSE}, Directive : {"NONE", "INDEX"}, ValueType : {"DEFAULT", "STRING", "INT"},
     Tokenizer : TokenizerLists, Count : BOOLEAN]

\* The orders in which a Go map keyed by tokenizer name can be ranged over.
MapOrders == {<<"term", "exact">>, <<"exact", "term">>}

irAttr == NamespaceAttr(0, NameTt)

\* tok.GetTokenizer(name).Identifier() of the registered tokenizers.
TokExact == 2

tokIdentifier(name) == IF name = "term" THEN TokTerm ELSE TokExact

ByteSplit == 4

ByteCount == 8

IndexPrefix(attr) == keyHead(attr) \o <<ByteIndex>>

CountPrefix(attr) == keyHead(attr) \o <<ByteCount>>

\* prefix[0] = x.ByteSplit
splitTwin(prefix) == [prefix EXCEPT ![1] = ByteSplit]

VARIABLES indexRebuild

irVars == <<indexRebuild>>

NewIndexRebuild ==
    [pc |-> "new", Attr |-> irAttr, OldSchema |-> NilSchema, CurrentSchema |-> EmptySchema,
     tokInfo |-> [op |-> "noop", tokenizersToDelete |-> <<>>, tokenizersToRebuild |-> <<>>],
     countOp |-> "noop", dropped |-> <<>>, tokRebuilt |-> <<>>, countRebuilt |-> FALSE,
     err |-> FALSE]

\* x.Diff(dst, src): the keys of dst missing from src and the keys of src
\* missing from dst, each in the order the map is ranged over.
inOrder(order, set) == SelectSeq(order, LAMBDA t : t \in set)

Diff(dst, src, order) ==
    [add |-> inOrder(order, dst \ src), del |-> inOrder(order, src \ dst)]

oldOf(ir) == IF ir.OldSchema.nil THEN EmptySchema ELSE ir.OldSchema

noopInfo == [op |-> "noop", tokenizersToDelete |-> <<>>, tokenizersToRebuild |-> <<>>]

\* The tokenizer diff taken the other way round.
needsTokRebuildSwapped(ir, order) ==
    LET old == oldOf(ir)
        cur == ir.CurrentSchema
        currIndex == cur.Directive = "INDEX"
        prevIndex == old.Directive = "INDEX"
        d == Diff(Range(old.Tokenizer), Range(cur.Tokenizer), order)
    IN IF ~currIndex /\ ~prevIndex THEN noopInfo
       ELSE IF ~currIndex
       THEN [op |-> "delete", tokenizersToDelete |-> old.Tokenizer,
             tokenizersToRebuild |-> <<>>]
       ELSE IF currIndex /\ cur.ValueType # old.ValueType
       THEN [op |-> "rebuild", tokenizersToDelete |-> old.Tokenizer,
             tokenizersToRebuild |-> cur.Tokenizer]
       ELSE IF Len(d.add) = 0 /\ Len(d.del) = 0 THEN noopInfo
       ELSE [op |-> "rebuild", tokenizersToDelete |-> d.del,
             tokenizersToRebuild |-> d.add]

needsTokIndexRebuild(ir, order) ==
    LET old == oldOf(ir)
        cur == ir.CurrentSchema
        currIndex == cur.Directive = "INDEX"
        prevIndex == old.Directive = "INDEX"
        d == Diff(Range(cur.Tokenizer), Range(old.Tokenizer), order)
    IN IF ~currIndex /\ ~prevIndex THEN noopInfo
       ELSE IF ~currIndex
       THEN [op |-> "delete", tokenizersToDelete |-> old.Tokenizer,
             tokenizersToRebuild |-> <<>>]
       ELSE IF currIndex /\ cur.ValueType # old.ValueType
       THEN [op |-> "rebuild", tokenizersToDelete |-> old.Tokenizer,
             tokenizersToRebuild |-> cur.Tokenizer]
       ELSE IF Len(d.add) = 0 /\ Len(d.del) = 0 THEN noopInfo
       ELSE [op |-> "rebuild", tokenizersToDelete |-> d.del,
             tokenizersToRebuild |-> d.add]

\* The tokenizer's prefix without its SPLIT twin.
prefixesToDeleteNoSplit(attr, tokenizerName) ==
    <<IndexPrefix(attr) \o <<tokIdentifier(tokenizerName)>>>>

prefixesToDeleteTokensFor(attr, tokenizerName) ==
    LET prefix == IndexPrefix(attr) \o <<tokIdentifier(tokenizerName)>>
    IN <<prefix, splitTwin(prefix)>>

\* One round of either loop of prefixesForTokIndexes: the prefixes of one
\* tokenizer, a second time for "exact".
prefixesOfTokenizer(attr, tokenizer) ==
    prefixesToDeleteTokensFor(attr, tokenizer)
        \o (IF tokenizer # "exact" THEN <<>> ELSE prefixesToDeleteTokensFor(attr, tokenizer))

RECURSIVE prefixesOfTokenizers(_, _)
prefixesOfTokenizers(attr, tokenizers) ==
    IF tokenizers = <<>> THEN <<>>
    ELSE prefixesOfTokenizer(attr, Head(tokenizers))
             \o prefixesOfTokenizers(attr, Tail(tokenizers))

\* Only the tokenizers to delete contribute prefixes.
prefixesForDeletedOnly(ir, order) ==
    LET rebuildInfo == needsTokIndexRebuild(ir, order)
    IN IF rebuildInfo.op = "noop" THEN <<>>
       ELSE prefixesOfTokenizers(ir.Attr, rebuildInfo.tokenizersToDelete)

prefixesForTokIndexes(ir, order) ==
    LET rebuildInfo == needsTokIndexRebuild(ir, order)
    IN IF rebuildInfo.op = "noop" THEN <<>>
       ELSE prefixesOfTokenizers(ir.Attr, rebuildInfo.tokenizersToDelete)
                \o prefixesOfTokenizers(ir.Attr, rebuildInfo.tokenizersToRebuild)

\* The flag compared against the current schema alone.
needsCountFromCurrent(ir) ==
    IF ~ir.CurrentSchema.Count THEN "noop" ELSE "rebuild"

needsCountIndexRebuild(ir) ==
    IF ir.CurrentSchema.Count = oldOf(ir).Count THEN "noop"
    ELSE IF ~ir.CurrentSchema.Count THEN "delete"
    ELSE "rebuild"

prefixesToDropCountIndex(ir) ==
    IF needsCountIndexRebuild(ir) = "noop" THEN <<>>
    ELSE <<CountPrefix(ir.Attr), splitTwin(CountPrefix(ir.Attr))>>

\* The prefixes DropIndexes hands to pstore.DropPrefix.
DropIndexes(ir, order) == prefixesForTokIndexes(ir, order) \o prefixesToDropCountIndex(ir)

\* The tokenizers rebuildTokIndex runs the rebuilder for.
rebuildTokIndex(ir, order) ==
    LET rebuildInfo == needsTokIndexRebuild(ir, order)
    IN IF rebuildInfo.op # "rebuild" THEN <<>> ELSE rebuildInfo.tokenizersToRebuild

\* Whether rebuildCountIndex runs the rebuilder.
rebuildCountIndex(ir) == needsCountIndexRebuild(ir) = "rebuild"

\* A rebuild is requested for a predicate: the schema before and after.
StartIndexRebuild ==
    /\ indexRebuild.pc = "new"
    /\ \E old \in {NilSchema} \cup Schemas, cur \in Schemas :
          indexRebuild' = [indexRebuild EXCEPT !.pc = "drop", !.OldSchema = old,
                                               !.CurrentSchema = cur]

DoDropIndexes ==
    /\ indexRebuild.pc = "drop"
    /\ \E order \in MapOrders :
          indexRebuild' = [indexRebuild EXCEPT
              !.pc = "build",
              !.tokInfo = needsTokIndexRebuild(indexRebuild, order),
              !.countOp = needsCountIndexRebuild(indexRebuild),
              !.dropped = DropIndexes(indexRebuild, order)]

\* BuildIndexes: rebuildTokIndex, then rebuildCountIndex unless the first
\* returned an error (runOk is the outcome of its rebuilder run).
DoBuildIndexes ==
    /\ indexRebuild.pc = "build"
    /\ \E order \in MapOrders, runOk \in BOOLEAN :
          LET toks == rebuildTokIndex(indexRebuild, order)
              failed == Len(toks) > 0 /\ ~runOk
          IN indexRebuild' = [indexRebuild EXCEPT
                 !.pc = "built",
                 !.tokRebuilt = toks,
                 !.countRebuilt = ~failed /\ rebuildCountIndex(indexRebuild),
                 !.err = failed]

(***************************************************************************)
(* List type rebuild (IndexRebuild.BuildData, rebuildListType)             *)
(***************************************************************************)
\* The data keys of the predicate at the rebuild's timestamp.
MaxListKeys == 5

ListUids == 1..MaxListKeys

\* The uid of a value posting with a language tag: the fingerprint of the tag.
LangUid == Fingerprint64(<<101, 110>>)

\* The posting list of data key u before the rebuild: an untagged value (the
\* posting with uid math.MaxUint64), a tagged value, or both.
listPostings(u) ==
    (IF u % 3 # 2 THEN {[Uid |-> MaxUint64, Value |-> <<9, 100 + u>>]} ELSE {})
        \cup (IF u % 3 # 1 THEN {[Uid |-> LangUid, Value |-> <<9, 200 + u>>]} ELSE {})

\* The schema before and after: nil, or its List flag.
ListSchemas == {[nil |-> FALSE, List |-> l] : l \in BOOLEAN}

\* The posting List.addMutation makes of an edge of a list predicate: the
\* uid of the object id, or the fingerprint of the object value.
postingOfEdge(t) ==
    IF Len(t.ObjectId) > 0
    THEN [Op |-> t.Op, Uid |-> FromHex(t.ObjectId), Value |-> <<>>]
    ELSE [Op |-> t.Op, Uid |-> Fingerprint64(t.ObjectValue), Value |-> t.ObjectValue]

VARIABLES buildData

ltVars == <<buildData>>

NewBuildData ==
    [pc |-> "new", OldSchema |-> NilSchema, CurrentSchema |-> [nil |-> FALSE, List |-> FALSE],
     StartTs |-> 0, todo |-> {}, called |-> {}, mutations |-> [u \in ListUids |-> <<>>],
     ran |-> FALSE, err |-> FALSE, errKey |-> 0]

\* The list flag compared the other way round.
needsListTypeSwapped(bd) ==
    IF bd.OldSchema.nil THEN [needsRebuild |-> FALSE, err |-> FALSE]
    ELSE IF bd.OldSchema.List /\ ~bd.CurrentSchema.List
    THEN [needsRebuild |-> TRUE, err |-> FALSE]
    ELSE IF bd.CurrentSchema.List /\ ~bd.OldSchema.List
    THEN [needsRebuild |-> FALSE, err |-> TRUE]
    ELSE [needsRebuild |-> FALSE, err |-> FALSE]

needsListTypeRebuild(bd) ==
    IF bd.OldSchema.nil THEN [needsRebuild |-> FALSE, err |-> FALSE]
    ELSE IF bd.CurrentSchema.List /\ ~bd.OldSchema.List
    THEN [needsRebuild |-> TRUE, err |-> FALSE]
    ELSE IF bd.OldSchema.List /\ ~bd.CurrentSchema.List
    THEN [needsRebuild |-> FALSE, err |-> TRUE]
    ELSE [needsRebuild |-> FALSE, err |-> FALSE]

\* The two edges in the other order.
listTypeEdgesSetFirst(attr, mpost) ==
    <<[ObjectId |-> <<>>, ObjectValue |-> mpost.Value, Predicate |-> attr, Op |-> "SET"],
      [ObjectId |-> ToHexString(mpost.Uid), ObjectValue |-> <<>>, Predicate |-> attr, Op |-> "DEL"]>>

\* builder.fn of rebuildListType: the edges it hands to addMutation for the
\* posting mpost, in order.
listTypeEdges(attr, mpost) ==
    <<[ObjectId |-> ToHexString(mpost.Uid), ObjectValue |-> <<>>, Predicate |-> attr, Op |-> "DEL"],
      [ObjectId |-> <<>>, ObjectValue |-> mpost.Value, Predicate |-> attr, Op |-> "SET"]>>

\* builder.fn of rebuildListType on the posting list pl: the mutations added
\* and the error returned. fail names the call that returns an error:
\* IterateAll, the first or the second addMutation, or none.
listTypeFn(attr, pl, fail) ==
    LET found == {p \in pl : p.Uid = MaxUint64}
        mpost == CHOOSE p \in found : TRUE
        edges == listTypeEdges(attr, mpost)
    IN IF fail = "iterate" THEN [added |-> <<>>, err |-> TRUE]
       ELSE IF found = {} THEN [added |-> <<>>, err |-> FALSE]
       ELSE IF fail = "del" THEN [added |-> <<>>, err |-> TRUE]
       ELSE IF fail = "set" THEN [added |-> <<postingOfEdge(edges[1])>>, err |-> TRUE]
       ELSE [added |-> <<postingOfEdge(edges[1]), postingOfEdge(edges[2])>>, err |-> FALSE]

\* BuildData is called for a schema change. Nothing is committed below
\* timestamp 1, so a rebuild at StartTs 0 finds no data key.
StartBuildData ==
    /\ buildData.pc = "new"
    /\ \E old \in {NilSchema} \cup ListSchemas, cur \in ListSchemas, ts \in StartTimestamps :
         LET bd == [buildData EXCEPT !.OldSchema = old, !.CurrentSchema = cur, !.StartTs = ts]
             need == needsListTypeRebuild(bd)
         IN buildData' =
                IF ~need.needsRebuild \/ need.err
                THEN [bd EXCEPT !.pc = "returned", !.err = need.err]
                ELSE IF ts = 0
                THEN [bd EXCEPT !.pc = "returned", !.ran = TRUE]
                ELSE [bd EXCEPT !.pc = "run", !.ran = TRUE, !.todo = ListUids]

\* builder.Run calls builder.fn for one data key (the calls for different
\* keys run concurrently); an error ends the run.
ListTypeKey ==
    /\ buildData.pc = "run"
    /\ \E u \in buildData.todo, fail \in {"none", "iterate", "del", "set"} :
         LET r == listTypeFn(rbAttr, listPostings(u), fail)
         IN buildData' = [buildData EXCEPT
                !.todo = @ \ {u},
                !.called = @ \cup {u},
                !.mutations[u] = r.added,
                !.pc = IF r.err THEN "returned" ELSE @,
                !.err = r.err,
                !.errKey = IF r.err THEN u ELSE @]

\* builder.Run returns nil once every data key went through.
ListTypeDone ==
    /\ buildData.pc = "run"
    /\ buildData.todo = {}
    /\ buildData' = [buildData EXCEPT !.pc = "returned"]

(***************************************************************************)
(* Rebuild generators (builder.fn of rebuildTokIndex, rebuildCountIndex)   *)
(***************************************************************************)
\* How often a mutation may answer ErrRetry in one call of a generator, and
\* the postings pl.Iterate hands to the index generator.
MaxRetries == 2

MaxPostings == 3

VARIABLES generator

genVars == <<generator>>

\* kind: "tok" or "count"; n: the mutations the call has to make (one per
\* posting, or the one count mutation; 0 when pl.Length returned -1);
\* i: the one being attempted; log: the attempts made, [i, res];
\* slept: the calls of time.Sleep.
NewGenerator ==
    [pc |-> "new", kind |-> "tok", n |-> 0, i |-> 0, log |-> <<>>, slept |-> 0,
     result |-> "none"]

\* ErrRetry taken for a final answer.
afterMutationNoRetry(err) == "return"

\* switch err { case ErrRetry: time.Sleep(...) default: return err }
afterMutation(err) == IF err = "ErrRetry" THEN "sleep" ELSE "return"

\* builder.fn is called for a key.
StartGenerator ==
    /\ generator.pc = "new"
    /\ \E kind \in {"tok", "count"}, n \in 0..MaxPostings :
         /\ kind = "count" => n <= 1
         /\ generator' = IF n = 0
                         THEN [generator EXCEPT !.pc = "returned", !.kind = kind,
                                                !.result = "nil"]
                         ELSE [generator EXCEPT !.pc = "mutate", !.kind = kind,
                                                !.n = n, !.i = 1]

\* One round of the for loop: addIndexMutations or addCountMutation returns
\* nil, ErrRetry or another error.
Mutate ==
    /\ generator.pc = "mutate"
    /\ \E err \in {"nil", "ErrRetry", "error"} :
         /\ err = "ErrRetry" =>
                Cardinality({k \in DOMAIN generator.log :
                                generator.log[k].res = "ErrRetry"}) < MaxRetries
         /\ LET log == Append(generator.log, [i |-> generator.i, res |-> err])
            IN generator' =
                   IF afterMutation(err) = "sleep"
                   THEN [generator EXCEPT !.pc = "sleep", !.log = log]
                   ELSE IF err = "nil" /\ generator.i < generator.n
                   THEN [generator EXCEPT !.i = @ + 1, !.log = log]
                   ELSE [generator EXCEPT !.pc = "returned", !.log = log, !.result = err]

\* time.Sleep(10 * time.Millisecond), then the loop goes round.
Sleep ==
    /\ generator.pc = "sleep"
    /\ generator' = [generator EXCEPT !.pc = "mutate", !.slept = @ + 1]

\* r.fn inside a pass-1 callback of Run: one round of the generator's loop
\* for the key. ErrRetry sleeps and goes round (the context is not looked
\* at); nil ends r.fn and the deltas are converted; another error ends Run.
Pass1Fn ==
    /\ rb.pc = "pass1"
    /\ \E call \in rb.running, err \in {"nil", "ErrRetry", "error"} :
         /\ call.fn = "mutate"
         /\ err = "ErrRetry" => call.retries < MaxRetries
         /\ IF afterMutation(err) = "sleep"
            THEN /\ rb' = [rb EXCEPT !.running =
                                (@ \ {call}) \cup {[call EXCEPT !.retries = @ + 1]}]
                 /\ UNCHANGED tmpDB
            ELSE IF err = "nil"
            THEN /\ rb' = [rb EXCEPT !.running =
                                (@ \ {call}) \cup {[call EXCEPT !.fn = "returned"]}]
                 /\ UNCHANGED tmpDB
            ELSE /\ rb' = [rbReturn("failed") EXCEPT !.err = "error"]
                 /\ tmpDB' = {}
    /\ UNCHANGED pstore

(***************************************************************************)
(* Edge processing (mapper.processNQuad called directly)                   *)
(***************************************************************************)
\* The calls made, and the edges offered: a subject "0", an object "0", a
\* uid edge of T.k (whose inverse is T.b), a value edge of T.k, a value edge
\* of the indexed T.t, a value edge of the list T.l.
MaxNQuadCalls == 4

NQuads ==
    { [Subject |-> <<48>>, Predicate |-> <<116>>, ObjectId |-> <<>>, ObjectValue |-> <<9, 104>>, Namespace |-> 0],
      [Subject |-> XidA, Predicate |-> <<107>>, ObjectId |-> <<48>>, ObjectValue |-> <<>>, Namespace |-> 0],
      [Subject |-> XidA, Predicate |-> <<107>>, ObjectId |-> <<51>>, ObjectValue |-> <<>>, Namespace |-> 0],
      [Subject |-> XidA, Predicate |-> <<107>>, ObjectId |-> <<>>, ObjectValue |-> <<9, 104>>, Namespace |-> 0],
      [Subject |-> XidB, Predicate |-> <<116>>, ObjectId |-> <<>>, ObjectValue |-> <<9, 104, 119>>, Namespace |-> 0],
      [Subject |-> XidB, Predicate |-> <<108>>, ObjectId |-> <<>>, ObjectValue |-> <<9, 104>>, Namespace |-> 0] }

VARIABLES
    nqXids,   \* the xid map the calls share
    nqCalls   \* the calls made so far, in order: [nq, entries, panic]

nqVars == <<nqXids, nqCalls>>

\* m.processNQuad(nq); a panic ends the process.
CallProcessNQuad ==
    /\ Len(nqCalls) < MaxNQuadCalls
    /\ \A k \in DOMAIN nqCalls : ~nqCalls[k].panic
    /\ \E nq \in NQuads :
         LET r == processNQuad(nqXids, nq)
         IN /\ nqXids' = r.xm
            /\ nqCalls' = Append(nqCalls, [nq |-> nq, entries |-> r.entries, panic |-> r.panic])

(***************************************************************************)
(* DivideAndRule (src/x/x.go)                                              *)
(***************************************************************************)
\* A Go int holds 64 bits; it is kept here as two limbs, [hi, lo] standing
\* for hi * LimbBase + lo with 0 <= lo < LimbBase.
LimbBase == 4096 * 4096

Wide(hi, lo) == [hi |-> hi, lo |-> lo]

WideOf(n) == Wide(n \div LimbBase, n % LimbBase)

WideLeq(a, c) == a.hi < c.hi \/ (a.hi = c.hi /\ a.lo <= c.lo)

\* 2^53, from which on a float64 no longer holds every integer.
TwoTo53 == Wide(LimbBase * 32, 0)

\* float64(num): exact below 2^53; from 2^53 to 2^54 only the even integers
\* exist, and an odd one goes to the neighbour whose mantissa is even (the
\* multiple of 4).
Float64(n) ==
    IF ~WideLeq(TwoTo53, n) \/ n.lo % 2 = 0 THEN n
    ELSE LET lo == IF n.lo % 4 = 1 THEN n.lo - 1 ELSE n.lo + 1
         IN IF lo = LimbBase THEN Wide(n.hi + 1, 0) ELSE Wide(n.hi, lo)

\* math.Ceil(f / float64(numGo)) for numGo a power of two up to 64: dividing
\* a float64 by a power of two is exact.
Ceil(f, numGo) ==
    LET rem == (f.hi % numGo) * LimbBase + f.lo
        lo == (rem + numGo - 1) \div numGo
    IN IF lo = LimbBase THEN Wide(f.hi \div numGo + 1, 0) ELSE Wide(f.hi \div numGo, lo)

\* The numbers DivideAndRule is called with: those around every threshold
\* g * 256, and those around 2^53.
DivideNums ==
    {WideOf(0), WideOf(1)}
        \cup {WideOf(g * 256 + d) : g \in {1, 2, 4, 8, 16, 32, 64}, d \in {-1, 0, 1}}
        \cup {Wide(TwoTo53.hi - 1, LimbBase - 1)}
        \cup {Wide(TwoTo53.hi, d) : d \in 0..3}

VARIABLES
    divide    \* the call of DivideAndRule in progress: its argument and locals

divVars == <<divide>>

NewDivide == [pc |-> "idle", num |-> WideOf(0), numGo |-> 0, width |-> WideOf(0)]

\* numGo, width = 64, 0
StartDivide ==
    /\ divide.pc \in {"idle", "returned"}
    /\ \E num \in DivideNums :
         divide' = [pc |-> "loop", num |-> num, numGo |-> 64, width |-> WideOf(0)]

\* The test of one iteration: return with this width?
returnsAt(numGo, widthF) == numGo = 1 \/ WideLeq(WideOf(256), widthF)

\* One iteration of the loop: return the width, or halve numGo and go on
\* while numGo >= 1.
DivideStep ==
    /\ divide.pc = "loop"
    /\ LET widthF == Ceil(Float64(divide.num), divide.numGo)
       IN IF returnsAt(divide.numGo, widthF)
          THEN divide' = [divide EXCEPT !.pc = "returned", !.width = widthF]
          ELSE divide' = [divide EXCEPT !.numGo = divide.numGo \div 2,
                                        !.pc = IF divide.numGo \div 2 >= 1
                                               THEN "loop" ELSE "returned"]

(***************************************************************************)
(* Record offsets in a table of the default size (TableBuilder.Add)        *)
(***************************************************************************)
\* var tableSize int64 = 50 << 20
defaultTableSize == 50 * 1024 * 1024

MaxSizedAdds == 4

\* len(key) and len(value) of the records offered to Add; the keys share no
\* prefix, so the whole key is written.
KeyLens == {3, 30000}

ValueLens == {0, 40000}

VARIABLES sized     \* the offsets of a TableBuilder after Reset: restarts is
                    \* len(b.restarts), records the headers written and where

szVars == <<sized>>

NewSized ==
    [pos |-> 0, prevOffset |-> 0, counter |-> 0, restarts |-> 0, records |-> <<>>,
     err |-> FALSE]

\* TableBuilder.Add for a key of klen bytes and a value of vlen bytes.
AddSized(b, klen, vlen) ==
    IF klen + vlen + (b.pos + 6 + 4 * b.restarts + 8) > defaultTableSize
    THEN [b EXCEPT !.err = TRUE]
    ELSE LET atRestart == b.counter >= restartInterval
             h == [plen |-> 0, klen |-> klen, vlen |-> vlen, prev |-> b.prevOffset]
         IN [pos |-> b.pos + headerSize + klen + vlen,
             prevOffset |-> b.pos,
             counter |-> (IF atRestart THEN 0 ELSE b.counter) + 1,
             restarts |-> b.restarts + (IF atRestart THEN 1 ELSE 0),
             records |-> Append(b.records, [start |-> b.pos, header |-> Encode(h)]),
             err |-> FALSE]

DoAddSized ==
    /\ Len(sized.records) < MaxSizedAdds
    /\ ~sized.err
    /\ \E klen \in KeyLens, vlen \in ValueLens : sized' = AddSized(sized, klen, vlen)

(***************************************************************************)
(* RateLimiter (src/x/x.go)                                                *)
(***************************************************************************)
\* The limiter's maxTokens, the namespaces and the requests of the callers.
maxTokens == 3

MaxAllowCalls == 3

MaxRefills == 2

LimiterNamespaces == {1, 2}

Reqs == {2, 4}

VARIABLES limiter   \* the RateLimiter: present and tokens are the sync.Map,
                    \* calls the Allow calls in progress, todo the entries the
                    \* running refill has still to visit; granted[ns] sums
                    \* the requests allowed since the last refill of ns

rlVars == <<limiter>>

\* NewRateLimiter: an empty map, the refill task started.
NewRateLimiter ==
    [present |-> {}, tokens |-> [ns \in LimiterNamespaces |-> 0], calls |-> {},
     nCalls |-> 0, granted |-> [ns \in LimiterNamespaces |-> 0], todo |-> {},
     refills |-> 0, closed |-> FALSE]

\* r.limiter.LoadOrStore(ns, &v) with v = r.maxTokens.
LoadOrStore(r, ns) ==
    IF ns \in r.present THEN r
    ELSE [r EXCEPT !.present = @ \cup {ns}, !.tokens[ns] = maxTokens]

\* Allow is called: the entry of the namespace is loaded, or stored first.
AllowLoad ==
    /\ limiter.nCalls < MaxAllowCalls
    /\ \E ns \in LimiterNamespaces, req \in Reqs :
          limiter' = [LoadOrStore(limiter, ns) EXCEPT
                         !.nCalls = @ + 1,
                         !.calls = @ \cup {[id |-> limiter.nCalls + 1, ns |-> ns,
                                            req |-> req, at |-> "sub"]}]

\* cnt < 0
rejects(cnt) == cnt < 0

\* atomic.AddInt64(ptr, -req): Allow returns true unless the count is
\* negative now.
AllowSub ==
    \E c \in limiter.calls :
        /\ c.at = "sub"
        /\ LET cnt == limiter.tokens[c.ns] - c.req
           IN limiter' =
                 IF rejects(cnt)
                 THEN [limiter EXCEPT !.tokens[c.ns] = cnt,
                                      !.calls = (@ \ {c}) \cup {[c EXCEPT !.at = "undo"]}]
                 ELSE [limiter EXCEPT !.tokens[c.ns] = cnt,
                                      !.calls = @ \ {c},
                                      !.granted[c.ns] = @ + c.req]

\* atomic.AddInt64(ptr, req): Allow returns false.
AllowUndo ==
    \E c \in limiter.calls :
        /\ c.at = "undo"
        /\ limiter' = [limiter EXCEPT !.tokens[c.ns] = @ + c.req, !.calls = @ \ {c}]

\* case <-ticker.C: refill ranges over the entries of the map.
Tick ==
    /\ ~limiter.closed
    /\ limiter.todo = {}
    /\ limiter.refills < MaxRefills
    /\ limiter' = [limiter EXCEPT !.todo = limiter.present, !.refills = @ + 1]

\* atomic.StoreInt64(val.(*int64), r.maxTokens) for one entry.
RefillStore ==
    \E ns \in limiter.todo :
        limiter' = [limiter EXCEPT !.tokens[ns] = maxTokens, !.granted[ns] = 0,
                                   !.todo = @ \ {ns}]

\* case <-r.closer.HasBeenClosed(): the refill task returns.
CloseLimiter ==
    /\ ~limiter.closed
    /\ limiter.todo = {}
    /\ limiter' = [limiter EXCEPT !.closed = TRUE]

(***************************************************************************)
(* Two builders given the same calls after Reset                           *)
(***************************************************************************)
MaxPriorAdds == 2

MaxPairAdds == 2

PairKeys == {<<1>>, <<1, 2>>}

VARIABLES pair      \* fresh: a builder that has built nothing so far; used: a
                    \* builder that has built a table before; calls: the Adds
                    \* both were given after Reset

prVars == <<pair>>

NewPair ==
    [phase |-> "new", fresh |-> ZeroBuilder, used |-> ZeroBuilder, prior |-> 0,
     calls |-> <<>>, freshOut |-> <<>>, usedOut |-> <<>>]

\* The earlier life of the used builder: Reset, Adds, Finish.
PriorReset ==
    /\ pair.phase = "new"
    /\ pair' = [pair EXCEPT !.phase = "prior", !.used = Reset(pair.used)]

PriorAdd ==
    /\ pair.phase = "prior"
    /\ pair.prior < MaxPriorAdds
    /\ \E key \in PairKeys, value \in TableValues :
          LET r == Add(pair.used, key, value)
          IN pair' = [pair EXCEPT !.used = r.b, !.prior = @ + 1,
                                  !.phase = IF r.panic THEN "crashed" ELSE @]

PriorFinish ==
    /\ pair.phase = "prior"
    /\ LET r == Finish(pair.used)
       IN pair' = [pair EXCEPT !.used = r.b,
                               !.phase = IF r.panic THEN "crashed" ELSE "ready"]

\* Reset is called on both builders.
ResetBoth ==
    /\ pair.phase = "ready"
    /\ pair' = [pair EXCEPT !.phase = "open", !.fresh = Reset(pair.fresh),
                            !.used = Reset(pair.used)]

\* The same Add is made on both.
AddBoth ==
    /\ pair.phase = "open"
    /\ Len(pair.calls) < MaxPairAdds
    /\ \E key \in PairKeys, value \in TableValues :
          LET f == Add(pair.fresh, key, value)
              u == Add(pair.used, key, value)
          IN pair' = [pair EXCEPT !.fresh = f.b, !.used = u.b,
                                  !.calls = Append(@, [key |-> key, value |-> value]),
                                  !.phase = IF f.panic \/ u.panic THEN "crashed" ELSE @]

\* Finish is called on both.
FinishBoth ==
    /\ pair.phase = "open"
    /\ LET f == Finish(pair.fresh)
           u == Finish(pair.used)
       IN pair' = [pair EXCEPT !.fresh = f.b, !.used = u.b,
                               !.freshOut = f.out, !.usedOut = u.out,
                               !.phase = IF f.panic \/ u.panic THEN "crashed" ELSE "finished"]

(***************************************************************************)
(* Mutations with index upkeep (List.AddMutationWithIndex)                 *)
(***************************************************************************)
MaxEdgeCalls == 3

\* The subjects and the values of the edges applied; the predicate is the
\* indexed scalar T.t.
EdgeSubjects == {1, 2}

EdgeValues == {<<9, 104>>, <<9, 104, 119>>}

\* types.StringToBinary(x.Star): the string type byte and the word _STAR_ALL.
StarWord == 42

StarValue == <<9, StarWord>>

\* x.IsStarAll
IsStarAll(v) == IF Len(v) = 0 THEN FALSE ELSE Tail(v) = <<StarWord>>

VARIABLES store     \* values[u]: the value posting of subject u under T.t
                    \* (<<>> when there is none); index: the <<index key,
                    \* uid>> pairs of the predicate's index; last: the edge
                    \* applied last and the error returned

daVars == <<store>>

NewStore ==
    [values |-> [u \in EdgeSubjects |-> <<>>], index |-> {}, n |-> 0,
     last |-> [Op |-> "none"]]

\* indexTokens: the tokens of info.val for info.tokenizers, in order.
RECURSIVE indexTokens(_, _)
indexTokens(val, tokenizers) ==
    IF Len(tokenizers) = 0 THEN <<>>
    ELSE buildTokens(Tail(val), Head(tokenizers)) \o indexTokens(val, Tail(tokenizers))

\* Txn.addIndexMutations: [index |-> the index afterwards, err].
addIndexMutations(index, info) ==
    IF FromHex(info.edge.Subject) = 0 THEN [index |-> index, err |-> TRUE]
    ELSE LET tokens == indexTokens(info.val, info.tokenizers)
             entries == {<<IndexKey(info.edge.Predicate, tokens[i]), FromHex(info.edge.Subject)>> :
                            i \in 1..Len(tokens)}
         IN [index |-> IF info.op = "DEL" THEN index \ entries ELSE index \cup entries,
             err |-> FALSE]

tokenizersOf(edge) == schemaTokenizers(Slice(edge.Predicate, 8, Len(edge.Predicate)))

\* List.handleDeleteAll: for each posting of the list an index deletion is
\* added, then the delete-all edge itself is applied to the list.
handleDeleteAll(st, edge) ==
    LET u == FromHex(edge.Subject)
        isIndexed == Len(tokenizersOf(edge)) > 0
        r == IF isIndexed /\ Len(st.values[u]) > 0
             THEN addIndexMutations(st.index,
                      [tokenizers |-> tokenizersOf(edge), edge |-> edge,
                       val |-> edge.ObjectValue, op |-> "DEL"])
             ELSE [index |-> st.index, err |-> FALSE]
    IN IF r.err THEN [st EXCEPT !.last = [Op |-> "DEL", star |-> TRUE, u |-> u, err |-> TRUE]]
       ELSE [st EXCEPT !.index = r.index, !.values[u] = <<>>,
                       !.last = [Op |-> "DEL", star |-> TRUE, u |-> u, err |-> FALSE]]

\* List.AddMutationWithIndex with Txn.addMutationHelper.
AddMutationWithIndex(st, edge) ==
    IF edge.Op = "DEL" /\ IsStarAll(edge.ObjectValue) THEN handleDeleteAll(st, edge)
    ELSE
        LET u == FromHex(edge.Subject)
            doUpdateIndex == Len(tokenizersOf(edge)) > 0
            found == Len(st.values[u]) > 0
            currPost == st.values[u]
            ignored == edge.Op = "DEL" /\ found /\ currPost # edge.ObjectValue
            val == IF found /\ doUpdateIndex THEN currPost ELSE <<>>
            values == [st.values EXCEPT ![u] = IF edge.Op = "SET" THEN edge.ObjectValue ELSE <<>>]
            del == IF doUpdateIndex /\ found /\ Len(val) > 0
                   THEN addIndexMutations(st.index,
                            [tokenizers |-> tokenizersOf(edge), edge |-> edge,
                             val |-> val, op |-> "DEL"])
                   ELSE [index |-> st.index, err |-> FALSE]
            set == IF doUpdateIndex /\ edge.Op = "SET" /\ ~del.err
                   THEN addIndexMutations(del.index,
                            [tokenizers |-> tokenizersOf(edge), edge |-> edge,
                             val |-> edge.ObjectValue, op |-> "SET"])
                   ELSE del
            last == [Op |-> edge.Op, star |-> FALSE, u |-> u, err |-> set.err]
        IN IF ignored THEN [st EXCEPT !.last = last]
           ELSE [st EXCEPT !.values = values, !.index = set.index, !.last = last]

\* An edge of the predicate is applied: a value is set, a value is deleted
\* or all values of the subject are deleted.
DoMutation ==
    /\ store.n < MaxEdgeCalls
    /\ \E u \in EdgeSubjects, op \in {"SET", "DEL"}, v \in EdgeValues \cup {StarValue} :
          /\ (op = "SET") => v # StarValue
          /\ store' = [AddMutationWithIndex(store,
                           [Subject |-> ToHexString(u), Predicate |-> rbAttr,
                            ObjectId |-> <<>>, ObjectValue |-> v, Op |-> op])
                       EXCEPT !.n = store.n + 1]

(***************************************************************************)
(* BytesBuffer (src/x/x.go)                                                *)
(***************************************************************************)
MaxBufferCalls == 4

\* The lengths asked of Slice and the amounts given back to TruncateBy.
SliceLens == {1, 100, 200}

TruncateLens == {1, 50}

VARIABLES bbuf      \* b: the BytesBuffer, data[i] being len(b.data[i]);
                    \* handed and truncated sum the arguments of the Slice
                    \* and TruncateBy calls made

bbVars == <<bbuf>>

NewBytesBuffer ==
    [b |-> [data |-> <<>>, off |-> 0, sz |-> 0], handed |-> 0, truncated |-> 0,
     n |-> 0, panic |-> FALSE]

\* BytesBuffer.grow
grow(b, n0) ==
    LET n == IF n0 < 128 THEN 128 ELSE n0
        b1 == IF Len(b.data) = 0 THEN [b EXCEPT !.data = <<n>>] ELSE b
        last == Len(b1.data)
        twice == b1.data[last] * 2
        capped == IF twice > 512 * 1024 THEN 512 * 1024 ELSE twice
        sz == IF capped < n THEN n ELSE capped
    IN IF b1.data[last] - b1.off >= n THEN b1
       ELSE [data |-> Append([b1.data EXCEPT ![last] = b1.off], sz),
             off |-> 0,
             sz |-> b1.sz + b1.off]

\* BytesBuffer.Slice: the buffer afterwards (the slice returned has n bytes).
BufferSlice(b, n) ==
    LET b1 == grow(b, n)
    IN [b1 EXCEPT !.off = @ + n, !.sz = @ + n]

\* BytesBuffer.Length
Length(b) == b.sz

\* BytesBuffer.CopyTo: the number of bytes copied.
RECURSIVE sumLens(_)
sumLens(data) == IF Len(data) = 0 THEN 0 ELSE Head(data) + sumLens(Tail(data))

CopyTo(b) ==
    IF Len(b.data) = 0 THEN 0
    ELSE sumLens(SubSeq(b.data, 1, Len(b.data) - 1)) + b.off

\* BytesBuffer.TruncateBy: [b, panic |-> the assertion failed].
TruncateBy(b, n) ==
    LET b1 == [b EXCEPT !.off = @ - n, !.sz = @ - n]
    IN [b |-> b1, panic |-> ~(b1.off >= 0 /\ b1.sz >= 0)]

DoSlice ==
    /\ ~bbuf.panic
    /\ bbuf.n < MaxBufferCalls
    /\ \E n \in SliceLens :
          bbuf' = [bbuf EXCEPT !.b = BufferSlice(bbuf.b, n), !.handed = @ + n, !.n = @ + 1]

\* The caller gives back no more than it was handed.
DoTruncateBy ==
    /\ ~bbuf.panic
    /\ bbuf.n < MaxBufferCalls
    /\ \E m \in TruncateLens :
          /\ m <= bbuf.handed - bbuf.truncated
          /\ LET r == TruncateBy(bbuf.b, m)
             IN bbuf' = [bbuf EXCEPT !.b = r.b, !.truncated = @ + m, !.n = @ + 1,
                                     !.panic = r.panic]

(***************************************************************************)
(* Specifications                                                          *)
(***************************************************************************)
vars == <<tbVars, mapperVars, rbVars, uidVars, meVars, irVars, rerunVars, ltVars, genVars, nqVars, divVars, szVars, rlVars, prVars, daVars, bbVars>>

\* The state after construction: a zero TableBuilder, a new mapper.
Init ==
    /\ builder = ZeroBuilder
    /\ tbState = "new"
    /\ tbOp = [name |-> "none"]
    /\ nAdds = 0
    /\ pc = [at |-> "recv", i |-> 0]
    /\ shards = [i \in Shards |-> [cbuf |-> <<>>, mu |-> FALSE]]
    /\ spills = {}
    /\ files = <<>>
    /\ mapFileId = 0
    /\ xids = xidsInit
    /\ delivered = 0
    /\ added = [i \in Shards |-> <<>>]
    /\ nSpills = 0
    /\ swaps = [i \in Shards |-> [n |-> 0, entries |-> 0]]
    /\ rb = rbInit(0)
    /\ pstore = pstoreInit
    /\ tmpDB = {}
    /\ uidXids = xidsInit
    /\ uidCalls = <<>>
    /\ meOp = [name |-> "none"]
    /\ indexRebuild = NewIndexRebuild
    /\ runs = 0
    /\ firstResult = {}
    /\ buildData = NewBuildData
    /\ generator = NewGenerator
    /\ nqXids = xidsInit
    /\ nqCalls = <<>>
    /\ divide = NewDivide
    /\ sized = NewSized
    /\ limiter = NewRateLimiter
    /\ pair = NewPair
    /\ store = NewStore
    /\ bbuf = NewBytesBuffer

\* The SSTable builder alone.
TableNext ==
    \/ DoReset /\ UNCHANGED <<mapperVars, rbVars, uidVars, meVars, irVars, rerunVars, ltVars, genVars, nqVars, divVars, szVars, rlVars, prVars, daVars, bbVars>>
    \/ DoAdd /\ UNCHANGED <<mapperVars, rbVars, uidVars, meVars, irVars, rerunVars, ltVars, genVars, nqVars, divVars, szVars, rlVars, prVars, daVars, bbVars>>
    \/ DoFinish /\ UNCHANGED <<mapperVars, rbVars, uidVars, meVars, irVars, rerunVars, ltVars, genVars, nqVars, divVars, szVars, rlVars, prVars, daVars, bbVars>>

TableSpec == Init /\ [][TableNext]_vars

\* Records added to a table of the default size.
SizedNext ==
    \/ DoAddSized /\ UNCHANGED <<tbVars, mapperVars, rbVars, uidVars, meVars, irVars, rerunVars, ltVars, genVars, nqVars, divVars, rlVars, prVars, daVars, bbVars>>

SizedSpec == Init /\ [][SizedNext]_vars

\* The callers of Allow and the refill task, interleaved.
LimiterNext ==
    \/ AllowLoad /\ UNCHANGED <<tbVars, mapperVars, rbVars, uidVars, meVars, irVars, rerunVars, ltVars, genVars, nqVars, divVars, szVars, prVars, daVars, bbVars>>
    \/ AllowSub /\ UNCHANGED <<tbVars, mapperVars, rbVars, uidVars, meVars, irVars, rerunVars, ltVars, genVars, nqVars, divVars, szVars, prVars, daVars, bbVars>>
    \/ AllowUndo /\ UNCHANGED <<tbVars, mapperVars, rbVars, uidVars, meVars, irVars, rerunVars, ltVars, genVars, nqVars, divVars, szVars, prVars, daVars, bbVars>>
    \/ Tick /\ UNCHANGED <<tbVars, mapperVars, rbVars, uidVars, meVars, irVars, rerunVars, ltVars, genVars, nqVars, divVars, szVars, prVars, daVars, bbVars>>
    \/ RefillStore /\ UNCHANGED <<tbVars, mapperVars, rbVars, uidVars, meVars, irVars, rerunVars, ltVars, genVars, nqVars, divVars, szVars, prVars, daVars, bbVars>>
    \/ CloseLimiter /\ UNCHANGED <<tbVars, mapperVars, rbVars, uidVars, meVars, irVars, rerunVars, ltVars, genVars, nqVars, divVars, szVars, prVars, daVars, bbVars>>

LimiterSpec == Init /\ [][LimiterNext]_vars

\* A new builder and a used one, given the same calls from Reset on.
PairNext ==
    \/ PriorReset /\ UNCHANGED <<tbVars, mapperVars, rbVars, uidVars, meVars, irVars, rerunVars, ltVars, genVars, nqVars, divVars, szVars, rlVars, daVars, bbVars>>
    \/ PriorAdd /\ UNCHANGED <<tbVars, mapperVars, rbVars, uidVars, meVars, irVars, rerunVars, ltVars, genVars, nqVars, divVars, szVars, rlVars, daVars, bbVars>>
    \/ PriorFinish /\ UNCHANGED <<tbVars, mapperVars, rbVars, uidVars, meVars, irVars, rerunVars, ltVars, genVars, nqVars, divVars, szVars, rlVars, daVars, bbVars>>
    \/ ResetBoth /\ UNCHANGED <<tbVars, mapperVars, rbVars, uidVars, meVars, irVars, rerunVars, ltVars, genVars, nqVars, divVars, szVars, rlVars, daVars, bbVars>>
    \/ AddBoth /\ UNCHANGED <<tbVars, mapperVars, rbVars, uidVars, meVars, irVars, rerunVars, ltVars, genVars, nqVars, divVars, szVars, rlVars, daVars, bbVars>>
    \/ FinishBoth /\ UNCHANGED <<tbVars, mapperVars, rbVars, uidVars, meVars, irVars, rerunVars, ltVars, genVars, nqVars, divVars, szVars, rlVars, daVars, bbVars>>

PairSpec == Init /\ [][PairNext]_vars

\* Edges applied to an indexed predicate, one after the other.
MutationNext ==
    \/ DoMutation /\ UNCHANGED <<tbVars, mapperVars, rbVars, uidVars, meVars, irVars, rerunVars, ltVars, genVars, nqVars, divVars, szVars, rlVars, prVars, bbVars>>

MutationSpec == Init /\ [][MutationNext]_vars

\* Slices taken from a BytesBuffer and bytes given back.
BufferNext ==
    \/ DoSlice /\ UNCHANGED <<tbVars, mapperVars, rbVars, uidVars, meVars, irVars, rerunVars, ltVars, genVars, nqVars, divVars, szVars, rlVars, prVars, daVars>>
    \/ DoTruncateBy /\ UNCHANGED <<tbVars, mapperVars, rbVars, uidVars, meVars, irVars, rerunVars, ltVars, genVars, nqVars, divVars, szVars, rlVars, prVars, daVars>>

BufferSpec == Init /\ [][BufferNext]_vars

\* The mapper alone: the processor and the spill tasks, interleaved.
MapperNext ==
    \/ Recv /\ UNCHANGED <<tbVars, rbVars, uidVars, meVars, irVars, rerunVars, ltVars, genVars, nqVars, divVars, szVars, rlVars, prVars, daVars, bbVars>>
    \/ CloseInput /\ UNCHANGED <<tbVars, rbVars, uidVars, meVars, irVars, rerunVars, ltVars, genVars, nqVars, divVars, szVars, rlVars, prVars, daVars, bbVars>>
    \/ CheckShard /\ UNCHANGED <<tbVars, rbVars, uidVars, meVars, irVars, rerunVars, ltVars, genVars, nqVars, divVars, szVars, rlVars, prVars, daVars, bbVars>>
    \/ FinalShard /\ UNCHANGED <<tbVars, rbVars, uidVars, meVars, irVars, rerunVars, ltVars, genVars, nqVars, divVars, szVars, rlVars, prVars, daVars, bbVars>>
    \/ FinalLock /\ UNCHANGED <<tbVars, rbVars, uidVars, meVars, irVars, rerunVars, ltVars, genVars, nqVars, divVars, szVars, rlVars, prVars, daVars, bbVars>>
    \/ SpillSort /\ UNCHANGED <<tbVars, rbVars, uidVars, meVars, irVars, rerunVars, ltVars, genVars, nqVars, divVars, szVars, rlVars, prVars, daVars, bbVars>>
    \/ SpillOpen /\ UNCHANGED <<tbVars, rbVars, uidVars, meVars, irVars, rerunVars, ltVars, genVars, nqVars, divVars, szVars, rlVars, prVars, daVars, bbVars>>
    \/ SpillWrite /\ UNCHANGED <<tbVars, rbVars, uidVars, meVars, irVars, rerunVars, ltVars, genVars, nqVars, divVars, szVars, rlVars, prVars, daVars, bbVars>>
    \/ SpillWClose /\ UNCHANGED <<tbVars, rbVars, uidVars, meVars, irVars, rerunVars, ltVars, genVars, nqVars, divVars, szVars, rlVars, prVars, daVars, bbVars>>
    \/ SpillSync /\ UNCHANGED <<tbVars, rbVars, uidVars, meVars, irVars, rerunVars, ltVars, genVars, nqVars, divVars, szVars, rlVars, prVars, daVars, bbVars>>
    \/ SpillFClose /\ UNCHANGED <<tbVars, rbVars, uidVars, meVars, irVars, rerunVars, ltVars, genVars, nqVars, divVars, szVars, rlVars, prVars, daVars, bbVars>>
    \/ SpillUnlock /\ UNCHANGED <<tbVars, rbVars, uidVars, meVars, irVars, rerunVars, ltVars, genVars, nqVars, divVars, szVars, rlVars, prVars, daVars, bbVars>>
    \/ SpillRelease /\ UNCHANGED <<tbVars, rbVars, uidVars, meVars, irVars, rerunVars, ltVars, genVars, nqVars, divVars, szVars, rlVars, prVars, daVars, bbVars>>

MapperSpec == Init /\ [][MapperNext]_vars

\* The scheduler runs every goroutine that can take a step: each spill task
\* and the processor, once it no longer waits for input.
FairMapperSpec ==
    /\ MapperSpec
    /\ WF_vars(SpillStep /\ UNCHANGED <<tbVars, rbVars, uidVars, meVars, irVars, rerunVars, ltVars, genVars, nqVars, divVars, szVars, rlVars, prVars, daVars, bbVars>>)
    /\ WF_vars((CheckShard \/ FinalShard \/ FinalLock) /\ UNCHANGED <<tbVars, rbVars, uidVars, meVars, irVars, rerunVars, ltVars, genVars, nqVars, divVars, szVars, rlVars, prVars, daVars, bbVars>>)

\* One index rebuild, cancelled at any moment or not at all.
RebuildNext ==
    \/ Cancel /\ UNCHANGED <<tbVars, mapperVars, uidVars, meVars, irVars, rerunVars, ltVars, genVars, nqVars, divVars, szVars, rlVars, prVars, daVars, bbVars>>
    \/ RunStart /\ UNCHANGED <<tbVars, mapperVars, uidVars, meVars, irVars, rerunVars, ltVars, genVars, nqVars, divVars, szVars, rlVars, prVars, daVars, bbVars>>
    \/ Pass1Key /\ UNCHANGED <<tbVars, mapperVars, uidVars, meVars, irVars, rerunVars, ltVars, genVars, nqVars, divVars, szVars, rlVars, prVars, daVars, bbVars>>
    \/ Pass1Fn /\ UNCHANGED <<tbVars, mapperVars, uidVars, meVars, irVars, rerunVars, ltVars, genVars, nqVars, divVars, szVars, rlVars, prVars, daVars, bbVars>>
    \/ Pass1Delta /\ UNCHANGED <<tbVars, mapperVars, uidVars, meVars, irVars, rerunVars, ltVars, genVars, nqVars, divVars, szVars, rlVars, prVars, daVars, bbVars>>
    \/ Pass1Send /\ UNCHANGED <<tbVars, mapperVars, uidVars, meVars, irVars, rerunVars, ltVars, genVars, nqVars, divVars, szVars, rlVars, prVars, daVars, bbVars>>
    \/ Pass1Flush /\ UNCHANGED <<tbVars, mapperVars, uidVars, meVars, irVars, rerunVars, ltVars, genVars, nqVars, divVars, szVars, rlVars, prVars, daVars, bbVars>>
    \/ Pass2Key /\ UNCHANGED <<tbVars, mapperVars, uidVars, meVars, irVars, rerunVars, ltVars, genVars, nqVars, divVars, szVars, rlVars, prVars, daVars, bbVars>>
    \/ Pass2Flush /\ UNCHANGED <<tbVars, mapperVars, uidVars, meVars, irVars, rerunVars, ltVars, genVars, nqVars, divVars, szVars, rlVars, prVars, daVars, bbVars>>

RebuildSpec == Init /\ [][RebuildNext]_vars

\* The goroutines of Run are scheduled as long as they can take a step; the
\* caller may cancel or not.
RunStep ==
    RunStart \/ Pass1Key \/ Pass1Fn \/ Pass1Delta \/ Pass1Send \/ Pass1Flush
        \/ Pass2Key \/ Pass2Flush

FairRebuildSpec ==
    /\ RebuildSpec
    /\ WF_vars(RunStep /\ UNCHANGED <<tbVars, mapperVars, uidVars, meVars, irVars, rerunVars, ltVars, genVars, nqVars, divVars, szVars, rlVars, prVars, daVars, bbVars>>)

\* A sequence of mapper.uid calls.
UidNext == CallUid /\ UNCHANGED <<tbVars, mapperVars, rbVars, meVars, irVars, rerunVars, ltVars, genVars, nqVars, divVars, szVars, rlVars, prVars, daVars, bbVars>>

UidSpec == Init /\ [][UidNext]_vars

\* A sequence of marshalMapEntry calls.
MarshalNext == DoMarshal /\ UNCHANGED <<tbVars, mapperVars, rbVars, uidVars, irVars, rerunVars, ltVars, genVars, nqVars, divVars, szVars, rlVars, prVars, daVars, bbVars>>

MarshalSpec == Init /\ [][MarshalNext]_vars

\* The schema-change path: DropIndexes, then BuildIndexes.
IndexNext ==
    \/ StartIndexRebuild /\ UNCHANGED <<tbVars, mapperVars, rbVars, uidVars, meVars, rerunVars, ltVars, genVars, nqVars, divVars, szVars, rlVars, prVars, daVars, bbVars>>
    \/ DoDropIndexes /\ UNCHANGED <<tbVars, mapperVars, rbVars, uidVars, meVars, rerunVars, ltVars, genVars, nqVars, divVars, szVars, rlVars, prVars, daVars, bbVars>>
    \/ DoBuildIndexes /\ UNCHANGED <<tbVars, mapperVars, rbVars, uidVars, meVars, rerunVars, ltVars, genVars, nqVars, divVars, szVars, rlVars, prVars, daVars, bbVars>>

IndexSpec == Init /\ [][IndexNext]_vars

\* The index rebuilder called up to MaxRuns times in a row.
RerunNext ==
    \/ RebuildNext
    \/ RunAgain /\ UNCHANGED <<tbVars, mapperVars, uidVars, meVars, irVars, ltVars, genVars, nqVars, divVars, szVars, rlVars, prVars, daVars, bbVars>>

RerunSpec == Init /\ [][RerunNext]_vars

\* IndexRebuild.BuildData for a schema change.
ListTypeNext ==
    \/ StartBuildData /\ UNCHANGED <<tbVars, mapperVars, rbVars, uidVars, meVars, irVars, rerunVars, genVars, nqVars, divVars, szVars, rlVars, prVars, daVars, bbVars>>
    \/ ListTypeKey /\ UNCHANGED <<tbVars, mapperVars, rbVars, uidVars, meVars, irVars, rerunVars, genVars, nqVars, divVars, szVars, rlVars, prVars, daVars, bbVars>>
    \/ ListTypeDone /\ UNCHANGED <<tbVars, mapperVars, rbVars, uidVars, meVars, irVars, rerunVars, genVars, nqVars, divVars, szVars, rlVars, prVars, daVars, bbVars>>

ListTypeSpec == Init /\ [][ListTypeNext]_vars

\* One call of a rebuild generator.
GeneratorNext ==
    \/ StartGenerator /\ UNCHANGED <<tbVars, mapperVars, rbVars, uidVars, meVars, irVars, rerunVars, ltVars, nqVars, divVars, szVars, rlVars, prVars, daVars, bbVars>>
    \/ Mutate /\ UNCHANGED <<tbVars, mapperVars, rbVars, uidVars, meVars, irVars, rerunVars, ltVars, nqVars, divVars, szVars, rlVars, prVars, daVars, bbVars>>
    \/ Sleep /\ UNCHANGED <<tbVars, mapperVars, rbVars, uidVars, meVars, irVars, rerunVars, ltVars, nqVars, divVars, szVars, rlVars, prVars, daVars, bbVars>>

GeneratorSpec == Init /\ [][GeneratorNext]_vars

\* processNQuad called for one edge after the other.
NQuadNext == CallProcessNQuad /\ UNCHANGED <<tbVars, mapperVars, rbVars, uidVars, meVars, irVars, rerunVars, ltVars, genVars, divVars, szVars, rlVars, prVars, daVars, bbVars>>

NQuadSpec == Init /\ [][NQuadNext]_vars

\* DivideAndRule called again and again.
DivideNext ==
    \/ StartDivide /\ UNCHANGED <<tbVars, mapperVars, rbVars, uidVars, meVars, irVars, rerunVars, ltVars, genVars, nqVars, szVars, rlVars, prVars, daVars, bbVars>>
    \/ DivideStep /\ UNCHANGED <<tbVars, mapperVars, rbVars, uidVars, meVars, irVars, rerunVars, ltVars, genVars, nqVars, szVars, rlVars, prVars, daVars, bbVars>>

DivideSpec == Init /\ [][DivideNext]_vars

(***************************************************************************)
(* Reading a finished table back                                           *)
(***************************************************************************)
\* The trailing count and the offsets before it, read from the last bytes.
IndexCount(out) == U32(out, Len(out) - 4)

IndexOffsets(out) ==
    LET c == IndexCount(out)
    IN [i \in 1..c |-> U32(out, Len(out) - 4 - 4 * c + 4 * (i - 1))]

\* The offsets at which records start, walking the headers from off to end.
RECURSIVE RecordOffsets(_, _, _)
RecordOffsets(out, off, end) ==
    IF off >= end \/ off + headerSize > Len(out) THEN <<>>
    ELSE LET h == Decode(out, off)
         IN <<off>> \o RecordOffsets(out, off + headerSize + h.klen + h.vlen, end)

\* The end-of-stream offset: the last entry of the index.
EndOffset(out) == IndexOffsets(out)[IndexCount(out)]

TableRecords(out) == RecordOffsets(out, 0, EndOffset(out))

\* The offset right after the record that starts at off.
RecordEnd(out, off) == off + headerSize + Decode(out, off).klen + Decode(out, off).vlen

IsTerminator(h) == h.plen = 0 /\ h.klen = 0 /\ h.vlen = 0

\* The offsets of the records that open a block: every restartInterval-th one.
BlockStarts(offs) ==
    LET n == IF Len(offs) = 0 THEN 0 ELSE (Len(offs) - 1) \div restartInterval + 1
    IN [k \in 1..n |-> offs[(k - 1) * restartInterval + 1]]

Finished == tbState = "finished"

(***************************************************************************)
(* Claims about the SSTable builder                                        *)
(***************************************************************************)
\* C5: after Reset and any sequence of Adds, Finish fails none of its
\* assertions and returns a buffer of exactly tableSize bytes whose restart
\* index does not overlap any record.
C5_FinishNeverFails ==
    /\ tbState # "crashed"
    /\ Finished =>
         /\ Len(builder.buf) = tableSize
         /\ EndOffset(builder.buf) <= tableSize - 4 * IndexCount(builder.buf) - 4

\* C6 as stated: the restart index lists the start offset of every block,
\* the first block included, followed by the end-of-stream offset.
C6_IndexListsEveryBlock ==
    Finished =>
        LET out == builder.buf
            offs == TableRecords(out)
        IN IndexOffsets(out) = BlockStarts(offs) \o <<EndOffset(out)>>

\* C6 amended: the restart index lists the start offset of every block but
\* the first, followed by the end-of-stream offset, so the trailing count is
\* the number of blocks (at least one record) and not the number plus one.
C6_IndexListsLaterBlocks ==
    Finished =>
        LET out == builder.buf
            offs == TableRecords(out)
        IN /\ Len(offs) > 0 =>
                /\ IndexOffsets(out) = Tail(BlockStarts(offs)) \o <<RecordEnd(out, offs[Len(offs)])>>
                /\ IndexCount(out) = (Len(offs) - 1) \div restartInterval + 1
           /\ Len(offs) = 0 => IndexCount(out) = 1

C6_Witness ==
    /\ Finished
    /\ IndexCount(builder.buf) >= 2
    /\ Len(TableRecords(builder.buf)) > restartInterval

\* C7 as stated: at every offset listed in the restart index a record starts
\* and stores its full key, and no block holds more than restartInterval
\* records.
RecordsIn(offs, lo, hi) == {i \in 1..Len(offs) : lo <= offs[i] /\ offs[i] < hi}

BlocksBounded(out) ==
    LET offs == TableRecords(out)
        idx == IndexOffsets(out)
    IN \A i \in 1..Len(idx) :
         Cardinality(RecordsIn(offs, IF i = 1 THEN 0 ELSE idx[i - 1], idx[i])) <= restartInterval

FullKeyAt(out, r) ==
    /\ r \in Range(TableRecords(out))
    /\ Decode(out, r).plen = 0

C7_EveryListedOffsetIsRestart ==
    Finished =>
        /\ \A i \in 1..IndexCount(builder.buf) :
             FullKeyAt(builder.buf, IndexOffsets(builder.buf)[i])
        /\ BlocksBounded(builder.buf)

\* C7 amended: at every listed offset but the last (the end-of-stream offset,
\* where no record starts) a record starts and stores its full key, and no
\* block holds more than restartInterval records.
C7_RestartsStoreFullKey ==
    Finished =>
        /\ \A i \in 1..(IndexCount(builder.buf) - 1) :
             FullKeyAt(builder.buf, IndexOffsets(builder.buf)[i])
        /\ EndOffset(builder.buf) \notin Range(TableRecords(builder.buf))
        /\ BlocksBounded(builder.buf)

\* A finished table with a restart inside a run of keys that share a prefix.
C7_Witness ==
    /\ Finished
    /\ IndexCount(builder.buf) >= 2
    /\ \E i \in 1..Len(TableRecords(builder.buf)) :
         Decode(builder.buf, TableRecords(builder.buf)[i]).plen > 0

\* C8: every buffer returned by Finish holds a terminator record
\* (plen = klen = vlen = 0) after the last added record and right before
\* the end-of-stream offset.
C8_TerminatorPresent ==
    Finished =>
        LET out == builder.buf
            offs == TableRecords(out)
        IN /\ Len(offs) > 0
           /\ IsTerminator(Decode(out, offs[Len(offs)]))
           /\ offs[Len(offs)] + headerSize = EndOffset(out)

\* C9: Add returns the table-full error exactly when
\* pos + len(key) + len(value) + 6 + 4*len(restarts) + 8 > tableSize, and
\* then the builder is as it was before the call.
C9_AddFullIffOverflow ==
    [][nAdds' = nAdds + 1 =>
          /\ tbOp'.err <=>
               (builder.pos + Len(tbOp'.key) + Len(tbOp'.value)
                   + 6 + 4 * Len(builder.restarts) + 8 > tableSize)
          /\ tbOp'.err => builder' = builder]_vars

\* An Add refused on a builder that already holds a restart offset.
C9_Witness ==
    /\ tbOp.name = "Add"
    /\ tbOp.err
    /\ Len(builder.restarts) > 0
    /\ builder.pos + Len(tbOp.key) + Len(tbOp.value) + 6 + 8 <= tableSize

\* C26: in every buffer returned by Finish the final 4 bytes hold the
\* big-endian count c of restart offsets, the 4*c bytes before them hold
\* those offsets as big-endian 32-bit values in strictly ascending order, and
\* the last offset is the write position after the last record.
C26_TrailingIndex ==
    Finished =>
        LET out == builder.buf
            c == IndexCount(out)
            offs == IndexOffsets(out)
        IN /\ c = Len(builder.restarts)
           /\ c >= 1
           /\ 4 * c + 4 <= Len(out)
           /\ offs = builder.restarts
           /\ \A i \in 1..(c - 1) : offs[i] < offs[i + 1]
           /\ offs[c] = RecordEnd(out, builder.prevOffset)

\* A finished table with a restart offset before the end offset, closed by
\* its terminator.
C26_Witness ==
    /\ Finished
    /\ tbOp.term
    /\ IndexCount(builder.buf) = 2
    /\ 0 < IndexOffsets(builder.buf)[1]
    /\ IndexOffsets(builder.buf)[1] < IndexOffsets(builder.buf)[2]

\* The longest common prefix of two byte strings, by its definition.
LongestCommonPrefix(a, c) ==
    LET m == IF Len(a) < Len(c) THEN Len(a) ELSE Len(c)
    IN CHOOSE n \in 0..m :
         /\ \A i \in 1..n : a[i] = c[i]
         /\ n = m \/ a[n + 1] # c[n + 1]

\* The key of the first record of the block being written, read from the
\* buffer: the block starts at the last restart offset, or at 0.
BlockFirstKey(b) ==
    LET start == IF Len(b.restarts) = 0 THEN 0 ELSE b.restarts[Len(b.restarts)]
        h == Decode(b.buf, start)
    IN Slice(b.buf, start + headerSize, start + headerSize + h.klen)

\* The header and the key suffix of the record last written.
LastHeader(b) == Decode(b.buf, b.prevOffset)

LastSuffix(b) ==
    Slice(b.buf, b.prevOffset + headerSize, b.prevOffset + headerSize + LastHeader(b).klen)

RecordWritten == nAdds' = nAdds + 1 /\ ~tbOp'.err /\ tbState' = "open"

\* The record last written opens its block.
OpensBlock(b) ==
    b.prevOffset = (IF Len(b.restarts) = 0 THEN 0 ELSE b.restarts[Len(b.restarts)])

\* C27 as stated: for every record written by Add, plen is the length of the
\* longest common prefix of the key and the block's base key (the key of the
\* block's first record), plen + klen = len(key), and base_key[:plen]
\* followed by the stored suffix is the key; a key shorter than the base key
\* is accepted with plen <= min(len(key), len(base_key)).
C27_PrefixOfBaseKey ==
    [][RecordWritten =>
          LET key == tbOp'.key
              base == BlockFirstKey(builder')
              h == LastHeader(builder')
          IN /\ builder'.baseKey = base
             /\ h.plen = LongestCommonPrefix(key, base)
             /\ h.plen + h.klen = Len(key)
             /\ Slice(base, 0, h.plen) \o LastSuffix(builder') = key
             /\ h.plen <= Len(key) /\ h.plen <= Len(base)]_vars

\* C27 amended: the first record of a block stores its whole key with
\* plen = 0 and its key becomes the base key; for every other record plen is
\* the length of the longest common prefix of the key and the base key; for
\* every record plen + klen = len(key) and base_key[:plen] followed by the
\* stored suffix is the key, with plen <= min(len(key), len(base_key)).
C27_PrefixOfBaseKeyLaterRecords ==
    [][RecordWritten =>
          LET key == tbOp'.key
              base == BlockFirstKey(builder')
              h == LastHeader(builder')
          IN /\ builder'.baseKey = base
             /\ OpensBlock(builder') => h.plen = 0 /\ base = key
             /\ ~OpensBlock(builder') => h.plen = LongestCommonPrefix(key, base)
             /\ h.plen + h.klen = Len(key)
             /\ Slice(base, 0, h.plen) \o LastSuffix(builder') = key
             /\ h.plen <= Len(key) /\ h.plen <= Len(base)]_vars

\* A key shorter than the base key of its block, written after the block's
\* first record with a non-empty shared prefix and an empty suffix.
C27_Witness ==
    /\ tbState = "open"
    /\ tbOp.name = "Add"
    /\ ~tbOp.err
    /\ Len(tbOp.key) < Len(builder.baseKey)
    /\ LastHeader(builder).plen = 1
    /\ LastHeader(builder).klen = 0
    /\ ~OpensBlock(builder)

(***************************************************************************)
(* Claims about the mapper                                                 *)
(***************************************************************************)
Returned == pc.at = "done"

FilesOf(i) == {p \in DOMAIN files : p[1] = i}

CountIn(seq, e) == Cardinality({k \in 1..Len(seq) : seq[k] = e})

\* How often entry e is found in the files of the set ps.
RECURSIVE WrittenCount(_, _)
WrittenCount(ps, e) ==
    IF ps = {} THEN 0
    ELSE LET p == CHOOSE q \in ps : TRUE
         IN CountIn(files[p].records, e) + WrittenCount(ps \ {p}, e)

AllEntries ==
    UNION {Range(added[i]) : i \in Shards}
        \cup UNION {Range(files[p].records) : p \in DOMAIN files}

\* C1: when run() returns, every entry added to an arena of a shard is in
\* exactly one closed map file of that shard's directory, the shard being the
\* one that owns the entry's predicate; nothing is dropped, nothing is
\* written twice.
C1_EveryEntryInOneFile ==
    Returned =>
        /\ \A p \in DOMAIN files : files[p].state = "closed"
        /\ \A i \in Shards : \A e \in AllEntries :
             WrittenCount(FilesOf(i), e) = CountIn(added[i], e)
        /\ \A i \in Shards : \A e \in Range(added[i]) :
             shardFor(AttrOfKey(meKey(e))) = i

\* run() has returned after spills by threshold and by the final loop.
C1_Witness ==
    /\ Returned
    /\ Cardinality(DOMAIN files) >= 3
    /\ \A i \in Shards : FilesOf(i) # {}

SpillsOf(i) == {t \in spills : t.shard = i}

\* C2 as stated: for every shard at most one writeMapEntriesToFile execution
\* is in progress.
C2_OneSpillRunning == \A i \in Shards : Cardinality(SpillsOf(i)) <= 1

\* C2 amended: for every shard at most one spill is between its start and its
\* release of the mutex; a spill that has released the mutex may still be
\* releasing its arena when the next one starts.
C2_OneSpillHoldsShard ==
    \A i \in Shards :
        /\ Cardinality({t \in SpillsOf(i) : t.at # "release"}) <= 1
        /\ (\E t \in SpillsOf(i) : t.at # "release") => shards[i].mu

\* A spill is running while the processor waits to start the next one.
C2_Witness ==
    \E i \in Shards :
        /\ \E t \in SpillsOf(i) : t.at = "write"
        /\ pc.at = "check" /\ pc.i = i /\ needsSpill(shards[i])

\* C3 as stated, its final part: when run() returns no spill task is still
\* running and every arena that held an entry is in a closed file.
EveryArenaInFile ==
    /\ \A i \in Shards :
         /\ Len(shards[i].cbuf) = 0
         /\ Len(added[i]) > 0 => FilesOf(i) # {}
    /\ \A p \in DOMAIN files : files[p].state = "closed"

C3_NoSpillAtReturn == Returned => (spills = {} /\ EveryArenaInFile)

\* C3 amended: once the input is exhausted run() returns, and when it returns
\* every arena that held an entry is in a closed file and every spill has
\* released its shard's mutex; a spill started by the batch loop may still be
\* releasing its arena.
C3_RunReturns ==
    /\ (pc.at = "final") ~> Returned
    /\ [](Returned => (EveryArenaInFile /\ \A t \in spills : t.at = "release"))

\* run() has returned after waiting for a spill started by the batch loop.
C3_Witness ==
    /\ Returned
    /\ \E i \in Shards : Cardinality(FilesOf(i)) >= 2

\* C10: the records of every map file are in ascending (key, uid) order, and
\* they are the entries of the spilled arena, no more and no fewer.
InOrder(a, b) ==
    \/ BytesLess(meKey(a), meKey(b))
    \/ meKey(a) = meKey(b) /\ meUid(a) <= meUid(b)

SameEntries(s, t) ==
    /\ Len(s) = Len(t)
    /\ \A e \in Range(s) \cup Range(t) : CountIn(s, e) = CountIn(t, e)

C10_FilesSorted ==
    \A p \in DOMAIN files :
        files[p].state # "open" =>
            /\ \A k \in 1..(Len(files[p].records) - 1) :
                 InOrder(files[p].records[k], files[p].records[k + 1])
            /\ SameEntries(files[p].records, files[p].arena)

\* A file whose arena held two entries of one key with descending uids.
C10_Witness ==
    \E p \in DOMAIN files :
        /\ files[p].state = "closed"
        /\ \E k \in 1..(Len(files[p].arena) - 1) :
             /\ meKey(files[p].arena[k]) = meKey(files[p].arena[k + 1])
             /\ meUid(files[p].arena[k]) > meUid(files[p].arena[k + 1])

(***************************************************************************)
(* Index rebuild claims                                                    *)
(***************************************************************************)
\* The entries of the primary store that the rebuild wrote.
WrittenByRebuild == pstore \ pstoreInit

\* C4: when Run has returned an error (cancelled or failed before the final
\* flush returned), the primary store holds no entry written by the rebuild.
C4_FailedRebuildLeavesPrimary ==
    rb.pc = "failed" => WrittenByRebuild = {}

(***************************************************************************)
(* Map file header claims                                                  *)
(***************************************************************************)
\* The bytes the arena slices lo+1..hi take, each with its 4-byte prefix.
RECURSIVE accumulated(_, _, _)
accumulated(records, lo, hi) ==
    IF hi <= lo THEN 0 ELSE 4 + Len(records[hi]) + accumulated(records, lo, hi - 1)

\* at[i] is a record that carries partition key i, the records are taken in
\* file order, and from one to the next (from the start of the file to the
\* first) at least PartitionBufSize bytes of records pass.
Boundaries(f, at) ==
    \A i \in 1..Len(f.header) :
        /\ meKey(f.records[at[i]]) = f.header[i]
        /\ i > 1 => at[i - 1] < at[i]
        /\ accumulated(f.records, IF i = 1 THEN 0 ELSE at[i - 1], at[i]) >= PartitionBufSize

\* C11: in every written map file the partition keys are strictly ascending,
\* each is the key of a record of the body, and at least PartitionBufSize
\* bytes of records were accumulated between two consecutive ones.
C11_PartitionKeys ==
    \A p \in DOMAIN files :
        files[p].state # "open" =>
            LET f == files[p]
            IN /\ \A i \in 1..(Len(f.header) - 1) : BytesLess(f.header[i], f.header[i + 1])
               /\ \A i \in 1..Len(f.header) :
                    \E r \in 1..Len(f.records) : meKey(f.records[r]) = f.header[i]
               /\ \E at \in [1..Len(f.header) -> 1..Len(f.records)] : Boundaries(f, at)

\* A file with two partition keys, and a file in which a record reaches the
\* boundary with the key that was taken last.
C11_Witness ==
    /\ \E p \in DOMAIN files : files[p].state = "closed" /\ Len(files[p].header) >= 2
    /\ \E p \in DOMAIN files :
         /\ files[p].state = "closed"
         /\ Len(partitionKeysNoDedup(files[p].records, 0, <<>>)) > Len(files[p].header)

(***************************************************************************)
(* UID claims                                                              *)
(***************************************************************************)
\* C12: over every sequence of mapper.uid calls, equal (namespace, xid)
\* inputs got the same UID, distinct inputs got distinct UIDs, and no call
\* returned 0.
C12_UidStable ==
    \A i, j \in 1..Len(uidCalls) :
        LET a == uidCalls[i]
            b == uidCalls[j]
        IN /\ (a.xid = b.xid /\ a.ns = b.ns) <=> a.uid = b.uid
           /\ a.uid # 0

(***************************************************************************)
(* Map entry codec claims                                                  *)
(***************************************************************************)
Marshalled == meOp.name = "marshal"

LeftOver(i) == Len(added[i]) - swaps[i].entries

\* C14 as stated: when run() has returned, a shard that received an entry
\* has as many files as it had swaps at the threshold, plus one.
C14_FilesAreSwapsPlusOne ==
    Returned =>
        \A i \in Shards :
            added[i] # <<>> => Cardinality(FilesOf(i)) = swaps[i].n + 1

\* C14, amended: the one more file is there exactly when the arena holds an
\* entry at the end of the input.
C14_FilesAreSwapsPlusLast ==
    Returned =>
        \A i \in Shards :
            Cardinality(FilesOf(i)) = swaps[i].n + (IF LeftOver(i) > 0 THEN 1 ELSE 0)

\* run() has returned; one shard's last batch triggered a swap and nothing
\* followed, another shard swapped and still had entries at the end.
C14_Witness ==
    /\ Returned
    /\ \E i \in Shards : swaps[i].n >= 1 /\ LeftOver(i) = 0
    /\ \E i \in Shards : LeftOver(i) > 0


(***************************************************************************)
(* Index rebuild decisions                                                 *)
(***************************************************************************)
Decided == indexRebuild.pc \in {"build", "built"}

prevIndexed == oldOf(indexRebuild).Directive = "INDEX"

currIndexed == indexRebuild.CurrentSchema.Directive = "INDEX"

sameValueType == indexRebuild.CurrentSchema.ValueType = oldOf(indexRebuild).ValueType

oldTokens == Range(oldOf(indexRebuild).Tokenizer)

newTokens == Range(indexRebuild.CurrentSchema.Tokenizer)

\* C15: needsTokIndexRebuild follows the decision table when the old schema
\* is indexed: new schema not indexed gives delete with all old tokenizers;
\* both indexed and a changed value type gives rebuild, deleting all old and
\* rebuilding all new tokenizers; both indexed, same value type and equal
\* tokenizer sets gives noop; differing sets gives rebuild with delete = old
\* minus new and rebuild = new minus old; neither schema indexed gives noop.
C15_TokDecisionTable ==
    Decided =>
        LET info == indexRebuild.tokInfo
        IN /\ (prevIndexed /\ ~currIndexed) =>
                  /\ info.op = "delete"
                  /\ info.tokenizersToDelete = oldOf(indexRebuild).Tokenizer
                  /\ info.tokenizersToRebuild = <<>>
           /\ (prevIndexed /\ currIndexed /\ ~sameValueType) =>
                  /\ info.op = "rebuild"
                  /\ info.tokenizersToDelete = oldOf(indexRebuild).Tokenizer
                  /\ info.tokenizersToRebuild = indexRebuild.CurrentSchema.Tokenizer
           /\ (prevIndexed /\ currIndexed /\ sameValueType /\ oldTokens = newTokens) =>
                  info = noopInfo
           /\ (prevIndexed /\ currIndexed /\ sameValueType /\ oldTokens # newTokens) =>
                  /\ info.op = "rebuild"
                  /\ Range(info.tokenizersToDelete) = oldTokens \ newTokens
                  /\ Len(info.tokenizersToDelete) = Cardinality(oldTokens \ newTokens)
                  /\ Range(info.tokenizersToRebuild) = newTokens \ oldTokens
                  /\ Len(info.tokenizersToRebuild) = Cardinality(newTokens \ oldTokens)
           /\ (~prevIndexed /\ ~currIndexed) => info = noopInfo

\* A decision for two indexed schemas of one value type where a tokenizer is
\* removed and another one added.
C15_Witness ==
    /\ Decided
    /\ prevIndexed /\ currIndexed /\ sameValueType
    /\ oldTokens = {"term"} /\ newTokens = {"exact"}
    /\ indexRebuild.tokInfo.tokenizersToDelete = <<"term">>
    /\ indexRebuild.tokInfo.tokenizersToRebuild = <<"exact">>

\* C16: when the old schema is absent or not indexed and the new schema is
\* indexed, every tokenizer of the new schema is scheduled for rebuild and is
\* rebuilt by BuildIndexes, whatever the value types and whatever tokenizer
\* names the old schema carries.
C16_NewIndexRebuildsAll ==
    (Decided /\ ~prevIndexed /\ currIndexed) =>
        /\ Range(indexRebuild.tokInfo.tokenizersToRebuild) = newTokens
        /\ (indexRebuild.pc = "built" /\ ~indexRebuild.err) =>
               Range(indexRebuild.tokRebuilt) = newTokens

countPrefixes == {CountPrefix(indexRebuild.Attr), splitTwin(CountPrefix(indexRebuild.Attr))}

\* C17: the count operation is noop when the count flag is the same in the
\* old and the new schema (a nil old schema has count = false), delete when
\* it is turned off and rebuild when it is turned on; the count prefix and
\* its SPLIT twin are dropped exactly when the operation is not noop, and
\* the count index is rebuilt exactly when the operation is rebuild.
C17_CountIndex ==
    Decided =>
        LET oldCount == IF indexRebuild.OldSchema.nil THEN FALSE
                        ELSE indexRebuild.OldSchema.Count
            newCount == indexRebuild.CurrentSchema.Count
            op == indexRebuild.countOp
        IN /\ (newCount = oldCount) => op = "noop"
           /\ (oldCount /\ ~newCount) => op = "delete"
           /\ (~oldCount /\ newCount) => op = "rebuild"
           /\ (op # "noop") => countPrefixes \subseteq Range(indexRebuild.dropped)
           /\ (op = "noop") => countPrefixes \cap Range(indexRebuild.dropped) = {}
           /\ rebuildCountIndex(indexRebuild) <=> op = "rebuild"
           /\ (indexRebuild.pc = "built" /\ ~indexRebuild.err) =>
                  (indexRebuild.countRebuilt <=> op = "rebuild")

\* The count flag was turned on: both count prefixes were dropped and
\* BuildIndexes rebuilt the count index.
C17_Witness ==
    /\ indexRebuild.pc = "built"
    /\ ~indexRebuild.err
    /\ ~oldOf(indexRebuild).Count /\ indexRebuild.CurrentSchema.Count
    /\ indexRebuild.countOp = "rebuild"
    /\ countPrefixes \subseteq Range(indexRebuild.dropped)
    /\ indexRebuild.countRebuilt

\* The schema change that only adds the exact tokenizer to an indexed
\* predicate with the term tokenizer.
AddsExact ==
    /\ Decided
    /\ prevIndexed /\ currIndexed /\ sameValueType
    /\ oldOf(indexRebuild).Tokenizer = <<"term">>
    /\ indexRebuild.CurrentSchema.Tokenizer = <<"term", "exact">>
    /\ indexRebuild.CurrentSchema.Count = oldOf(indexRebuild).Count

termPrefixes == Range(prefixesToDeleteTokensFor(indexRebuild.Attr, "term"))

exactPrefixes == Range(prefixesToDeleteTokensFor(indexRebuild.Attr, "exact"))

\* C18 as stated: when the new schema only adds a tokenizer (old [term], new
\* [term, exact], both indexed, same value type, count unchanged), DropIndexes
\* passes no prefix to the store and the only tokenizer rebuilt is exact.
C18_AddDropsNothing ==
    AddsExact =>
        /\ Range(indexRebuild.dropped) = {}
        /\ (indexRebuild.pc = "built" /\ ~indexRebuild.err) =>
               indexRebuild.tokRebuilt = <<"exact">>

\* C18: for that schema change DropIndexes passes to the store the index
\* prefix of the added tokenizer exact and its SPLIT twin (each twice) and
\* nothing else, so no prefix of term and no count prefix is dropped, and
\* the only tokenizer rebuilt is exact.
C18_AddDropsOnlyAdded ==
    AddsExact =>
        /\ Range(indexRebuild.dropped) = exactPrefixes
        /\ Len(indexRebuild.dropped) = 4
        /\ Range(indexRebuild.dropped) \cap (termPrefixes \cup countPrefixes) = {}
        /\ (indexRebuild.pc = "built" /\ ~indexRebuild.err) =>
               indexRebuild.tokRebuilt = <<"exact">>

\* BuildIndexes has finished for a schema change that adds exact to term.
C18_Witness ==
    /\ AddsExact
    /\ indexRebuild.pc = "built"
    /\ ~indexRebuild.err
    /\ indexRebuild.tokRebuilt = <<"exact">>
    /\ Len(indexRebuild.dropped) = 4

(***************************************************************************)
(* Index rebuild: the two passes                                           *)
(***************************************************************************)
\* The entries the rebuild has handed to the primary store's write batch:
\* those committed and those still in the batch.
SetByRebuild == WrittenByRebuild \cup Range(rb.writer)

\* The keys of the temporary store that pass 2 has gone through.
RolledUp == {d.Key : d \in tmpDB} \ rb.todo2

\* C19: every entry a rebuild writes to the primary store carries version
\* startTs, user-meta BitCompletePosting and a non-empty value; a rollup
\* with an empty value is skipped (and one with a value is written), and
\* pass 1 writes nothing to the primary store.
C19_PrimaryWrites ==
    /\ \A e \in SetByRebuild :
           /\ e.Version = rb.startTs
           /\ e.UserMeta = BitCompletePosting
           /\ e.Value # {}
    /\ rb.pc \in {"start", "pass1"} => pstore = pstoreInit
    /\ rb.pc = "pass2" =>
           \A key \in RolledUp :
               LET kv == Rollup(key, rb.readTs)[1]
               IN IF kv.Value = {}
                  THEN \A e \in SetByRebuild : e.Key # key
                  ELSE \E e \in SetByRebuild : e.Key = key /\ e.Value = kv.Value

\* Pass 2 went through every key of the temporary store, one of them with
\* an empty rollup, and entries were committed to the primary store.
C19_Witness ==
    /\ rb.pc = "pass2"
    /\ rb.todo2 = {}
    /\ \E key \in RolledUp : Rollup(key, rb.readTs)[1].Value = {}
    /\ \E key \in RolledUp : Rollup(key, rb.readTs)[1].Value # {}
    /\ WrittenByRebuild # {}

\* Every delta KV pass 1 has made so far: in a running call, in a returned
\* list, in the write batch or in the temporary store.
DeltaKVs ==
    tmpDB \cup Range(rb.tmpWriter)
          \cup UNION {Range(kvs) : kvs \in rb.lists}
          \cup UNION {Range(call.kvs) : call \in rb.running}

\* C20: under any interleaving of the concurrent pass-1 callbacks no two
\* delta KVs carry the same version (one KV per value taken from counter);
\* pass 2 opens its stream at the value of counter, only after tmpWriter was
\* flushed, every delta of every data key is then in the temporary store at
\* a version not above it, and the rollup of a key reads all its deltas.
C20_DeltaVersions ==
    /\ \A a, b \in DeltaKVs : a # b => a.Version # b.Version
    /\ rb.pc = "pass1" => Cardinality(DeltaKVs) = rb.counter - 1
    /\ rb.pc = "pass2" =>
           /\ rb.readTs = rb.counter
           /\ rb.tmpWriter = NewWriteBatch
           /\ \A d \in tmpDB : d.Version <= rb.readTs
           /\ \A u \in DataUids : \A key \in DOMAIN indexDeltas(u) :
                  \E d \in tmpDB : d.Key = key /\ d.Value = indexDeltas(u)[key]
           /\ \A key \in {d.Key : d \in tmpDB} :
                  Rollup(key, rb.readTs)[1].Value =
                      {u \in DataUids : key \in DOMAIN indexDeltas(u) /\ deltaOp(u) = "set"}

\* Pass 2 has started after two pass-1 callbacks interleaved: the two deltas
\* of one data key have versions that are not consecutive, and one index key
\* has deltas of two data keys.
C20_Witness ==
    /\ rb.pc = "pass2"
    /\ \E a, b \in tmpDB :
           /\ a.Value = b.Value /\ a.Key # b.Key
           /\ a.Version + 1 < b.Version
    /\ \E a, b \in tmpDB : a.Key = b.Key /\ a.Value # b.Value

(***************************************************************************)
(* Index rebuild idempotence                                               *)
(***************************************************************************)
\* The index the data keys determine: per index key the uids whose posting
\* r.fn sets, for the keys where there is one.
IndexKeysOf == UNION {DOMAIN indexDeltas(u) : u \in DataUids}

ExpectedIndex ==
    {kv \in {<<key, {u \in DataUids : key \in DOMAIN indexDeltas(u) /\ deltaOp(u) = "set"}>> :
                key \in IndexKeysOf} : kv[2] # {}}

sentinels(u) == {p \in listPostings(u) : p.Uid = MaxUint64}

C23_ListTypeErrors ==
    buildData.pc # "new" =>
        LET old == buildData.OldSchema
            cur == buildData.CurrentSchema
        IN /\ (~old.nil /\ old.List /\ ~cur.List) =>
                  /\ buildData.pc = "returned"
                  /\ buildData.err
                  /\ ~buildData.ran /\ buildData.called = {}
           /\ (old.nil \/ old.List = cur.List) =>
                  /\ buildData.pc = "returned"
                  /\ ~buildData.err
                  /\ ~buildData.ran /\ buildData.called = {}

\* BuildData has returned the error for a list predicate made scalar.
C23_Witness ==
    /\ buildData.pc = "returned"
    /\ ~buildData.OldSchema.nil
    /\ buildData.OldSchema.List /\ ~buildData.CurrentSchema.List
    /\ buildData.err
    /\ ~buildData.ran

(***************************************************************************)
(* Rebuild generator claims                                                *)
(***************************************************************************)
RetriesIn(log) == Cardinality({k \in DOMAIN log : log[k].res = "ErrRetry"})

\* C24: a mutation that returns ErrRetry is attempted again for the same
\* posting after a sleep, until it returns something else; after nil the
\* generator goes on to the next posting (or returns nil after the last),
\* after any other error it returns that error with no further attempt; a
\* call that returned nil made every mutation succeed, none was skipped.
C24_RetrySameKey ==
    LET log == generator.log
    IN /\ \A k \in 1..(Len(log) - 1) :
              /\ log[k].res = "ErrRetry" => log[k + 1].i = log[k].i
              /\ log[k].res = "nil" => log[k + 1].i = log[k].i + 1
              /\ log[k].res # "error"
       /\ generator.slept = RetriesIn(log) - (IF generator.pc = "sleep" THEN 1 ELSE 0)
       /\ generator.pc = "sleep" => log[Len(log)].res = "ErrRetry"
       /\ (generator.pc = "mutate" /\ Len(log) > 0) =>
              /\ log[Len(log)].res # "error"
              /\ generator.i = log[Len(log)].i + (IF log[Len(log)].res = "nil" THEN 1 ELSE 0)
       /\ generator.pc = "returned" =>
              /\ generator.result = (IF Len(log) = 0 THEN "nil" ELSE log[Len(log)].res)
              /\ generator.result \in {"nil", "error"}
              /\ generator.result = "nil" =>
                     \A i \in 1..generator.n : \E k \in DOMAIN log : log[k] = [i |-> i, res |-> "nil"]

\* A call returned nil after a mutation had answered ErrRetry twice in a row
\* and was attempted a third time.
C24_Witness ==
    /\ generator.pc = "returned"
    /\ generator.result = "nil"
    /\ generator.n = 2
    /\ generator.slept = 2
    /\ \E k \in 1..(Len(generator.log) - 2) :
           /\ generator.log[k].res = "ErrRetry"
           /\ generator.log[k + 1].res = "ErrRetry"

(***************************************************************************)
(* Edge processing claims                                                  *)
(***************************************************************************)
\* x.Parse of a key: its key-type byte and, for a data key, its uid.
keyType(key) == key[3 + U16(key, 1) + 1]

keyUid(key) == U64(key, 3 + U16(key, 1) + 1)

\* The subject or the object identifier of the edge is the literal zero.
ResolvesToZero(nq) ==
    \/ ParseUint(nq.Subject) = 0
    \/ Len(nq.ObjectValue) = 0 /\ ParseUint(nq.ObjectId) = 0

\* C25: no map entry whose data key carries subject UID 0 is added to an
\* arena, forward or inverse, and an edge whose subject or object identifier
\* resolves to UID 0 aborts processing before any entry of it is added.
C25_NoZeroSubject ==
    \A k \in DOMAIN nqCalls :
        /\ \A e \in DOMAIN nqCalls[k].entries :
               keyType(meKey(nqCalls[k].entries[e].me)) = ByteData =>
                   keyUid(meKey(nqCalls[k].entries[e].me)) # 0
        /\ ResolvesToZero(nqCalls[k].nq) =>
               nqCalls[k].panic /\ nqCalls[k].entries = <<>>

\* The UID an identifier of an edge already processed stands for.
resolved(xid) == uid(nqXids, xid, 0).uid

\* The forward entry of a call that did not panic: the first entry added.
forwardEntry(c) == c.entries[1].me

edgeAttr(nq) == NamespaceAttr(0, typOf(nq.Subject) \o <<ChDot>> \o nq.Predicate)

FileSteps ==
    {<<"open", "written">>, <<"written", "flushed">>, <<"flushed", "synced">>,
     <<"synced", "closed">>}

\* Every entry of the sequence is in (key, uid) order with the ones after it.
Sorted(cbuf) == \A i, j \in 1..Len(cbuf) : i < j => InOrder(cbuf[i], cbuf[j])

\* The order of the steps of a spill, as a condition on one step.
SpillStepsInOrder ==
    /\ \A f \in DOMAIN files' :
         IF f \in DOMAIN files
         THEN files'[f].state # files[f].state =>
                  <<files[f].state, files'[f].state>> \in FileSteps
         ELSE /\ files'[f].state = "open"
              /\ \E t \in spills : t.shard = f[1] /\ t.at = "open" /\ Sorted(t.cbuf)
    /\ \A f \in DOMAIN files :
         files[f].state = "open" /\ files'[f].state = "written" =>
             /\ Sorted(files'[f].records)
             /\ Len(files'[f].records) = Len(files[f].arena)
    /\ \A i \in Shards :
         shards[i].mu /\ ~shards'[i].mu =>
             /\ \A f \in FilesOf(i) : files[f].state = "closed"
             /\ \E t \in spills : t.shard = i /\ t.num # 0
    /\ \A t \in spills :
         (\A r \in spills' : r.id # t.id) =>
             /\ files[<<t.shard, t.num>>].state = "closed"
             /\ t.at = "release"
    /\ \A t \in spills, r \in spills' :
         r.id = t.id /\ r.at = "release" /\ t.at # "release" =>
             shards[t.shard].mu /\ ~shards'[t.shard].mu

\* C29: within every spill the arena is sorted, then the header and all
\* records are written, the compressing stream is flushed and closed, the
\* file is fsynced, the file is closed, and only then the shard mutex and
\* the arena are released; the mutex is never released while the file is
\* still open.
C29_SpillOrder == [][SpillStepsInOrder]_vars

\* A spill of two entries or more has closed its file and released the
\* mutex, and has its arena yet to release.
C29_Witness ==
    \E t \in spills :
        /\ t.at = "release"
        /\ ~shards[t.shard].mu
        /\ files[<<t.shard, t.num>>].state = "closed"
        /\ Len(files[<<t.shard, t.num>>].records) >= 2
        /\ t.cbuf # t.handed

(***************************************************************************)
(* DivideAndRule claims                                                    *)
(***************************************************************************)
\* ceil(num / g) and g * w in whole numbers, for g a power of two up to 64.
CeilQuotient(num, g) == Ceil(num, g)

Times(g, w) == Wide(g * w.hi + (g * w.lo) \div LimbBase, (g * w.lo) % LimbBase)

PoolSizes == {64, 32, 16, 8, 4, 2, 1}

\* C30: for every num >= 0, DivideAndRule(num) returns numGo in
\* {64, 32, 16, 8, 4, 2, 1} and width = ceil(num / numGo) with
\* numGo * width >= num, where numGo is the largest of those values for
\* which width >= 256, or 1 when no such value exists.
C30_DivideAndRule ==
    divide.pc = "returned" =>
        /\ divide.numGo \in PoolSizes
        /\ divide.width = CeilQuotient(divide.num, divide.numGo)
        /\ WideLeq(divide.num, Times(divide.numGo, divide.width))
        /\ \A g \in PoolSizes :
             g > divide.numGo => ~WideLeq(WideOf(256), CeilQuotient(divide.num, g))
        /\ divide.numGo # 1 => WideLeq(WideOf(256), divide.width)

(***************************************************************************)
(* Cancellation claims                                                     *)
(***************************************************************************)
\* Run is inside one of its two passes with the context cancelled.
CancelledInPass == rb.ctxDone /\ rb.pc \in {"pass1", "pass2"}

\* A stream callback takes up a key: the key leaves the keys to do and Run
\* goes on.
CallbackTakesKey == rb'.pc = rb.pc /\ (rb'.todo1 # rb.todo1 \/ rb'.todo2 # rb.todo2)

\* Every callback that begins after the cancel hands ctx.Err() to Run, and
\* ctx.Err() is returned for no other reason.
ObservedAtBoundary ==
    /\ rb.ctxDone => ~CallbackTakesKey
    /\ rb'.err = "Canceled" /\ rb.err # "Canceled" => rb.ctxDone /\ rb'.pc = "failed"

StartedSpills == {t \in spills' : \A r \in spills : r.id # t.id}

\* What a step may do to the arenas: a spill that starts takes the arena of
\* its shard as it is, and the shard gets an empty arena at once unless the
\* processor runs the spill itself; an arena in a spill keeps its entries,
\* whatever their order; entries are added only to the arenas of the shards,
\* at their end, and never while the processor runs a spill itself.
ArenasKeptApart ==
    /\ \A t \in StartedSpills :
         /\ t.handed = shards[t.shard].cbuf /\ t.cbuf = t.handed
         /\ IF t.sync THEN pc'.at = "finalSpill" ELSE shards'[t.shard].cbuf = <<>>
    /\ \A t \in spills, r \in spills' :
         r.id = t.id => r.handed = t.handed /\ SameEntries(r.cbuf, t.handed)
    /\ added' # added =>
         /\ spills' = spills
         /\ \A t \in spills : ~t.sync
         /\ \A i \in Shards :
              /\ Len(added'[i]) >= Len(added[i])
              /\ shards'[i].cbuf =
                     shards[i].cbuf \o Slice(added'[i], Len(added[i]), Len(added'[i]))

\* C32: the processor never writes a map entry into an arena after that
\* arena was handed to a spill: from the start of the spill to the release
\* of the arena the spill is its only accessor, and every entry added
\* afterwards goes to the shard's fresh arena.
C32_SpilledArenaUntouched == [][ArenasKeptApart]_vars

\* Entries have been added to the fresh arena of a shard while the spill of
\* its previous arena is still writing.
C32_Witness ==
    \E t \in spills :
        /\ ~t.sync
        /\ t.at \in {"write", "wclose", "sync"}
        /\ Len(shards[t.shard].cbuf) > 0
        /\ \A e \in Range(shards[t.shard].cbuf) : e \notin Range(t.handed)

(***************************************************************************)
(* Temporary store claims                                                  *)
(***************************************************************************)
RunReturned == rb.pc \in {"done", "failed"}

\* C33: on every return path of Run after the temporary directory was
\* created (success, pass-1 error, pass-2 error, cancellation) the temporary
\* store is closed and then the directory is removed; at startTs 0 Run
\* returns success without creating a directory and without touching either
\* store.
C33_TempStoreCleanedUp ==
    /\ RunReturned /\ "dir" \in rb.made =>
          /\ ~rb.tmpDir /\ ~rb.tmpOpen /\ tmpDB = {}
          /\ rb.cleanup = (IF "store" \in rb.made THEN <<"tmpDB.Close">> ELSE <<>>)
                              \o <<"os.RemoveAll">>
    /\ RunReturned /\ rb.startTs = 0 =>
          /\ rb.pc = "done" /\ rb.err = "nil"
          /\ rb.made = {} /\ rb.cleanup = <<>>
          /\ pstore = pstoreInit /\ tmpDB = {} /\ rb.counter = 1
    /\ ~RunReturned => (rb.tmpOpen => rb.tmpDir)

\* Run has returned the cancellation error from pass 2, after it had
\* written to the temporary store.
C33_Witness ==
    /\ rb.pc = "failed"
    /\ rb.err = "Canceled"
    /\ rb.readTs > 1
    /\ rb.cleanup = <<"tmpDB.Close", "os.RemoveAll">>

(***************************************************************************)
(* Dropped prefix claims                                                   *)
(***************************************************************************)
\* bytes.HasPrefix(key, prefix)
HasPrefix(key, prefix) ==
    Len(prefix) <= Len(key) /\ Slice(key, 0, Len(prefix)) = prefix

\* An index key of the tokenizer and the same key in a split posting list.
tokenizerKeys(name) ==
    LET key == IndexKey(indexRebuild.Attr, <<tokIdentifier(name), 97>>)
    IN {key, splitTwin(key)}

droppedKey(key) == \E i \in 1..Len(indexRebuild.dropped) : HasPrefix(key, indexRebuild.dropped[i])

\* C34: DropIndexes drops no prefix of a tokenizer that both schemas list
\* when both are indexed and the value type is unchanged, so no index key of
\* an unchanged tokenizer falls under a dropped prefix; for every tokenizer
\* scheduled for deletion or rebuild it drops the index prefix with that
\* tokenizer's identifier and the SPLIT twin of that prefix.
C34_UnchangedTokenizersKept ==
    Decided =>
        /\ (prevIndexed /\ currIndexed /\ sameValueType) =>
               \A name \in oldTokens \cap newTokens :
                   /\ Range(prefixesToDeleteTokensFor(indexRebuild.Attr, name))
                          \cap Range(indexRebuild.dropped) = {}
                   /\ \A key \in tokenizerKeys(name) : ~droppedKey(key)
        /\ \A name \in Range(indexRebuild.tokInfo.tokenizersToDelete)
                           \cup Range(indexRebuild.tokInfo.tokenizersToRebuild) :
               /\ IndexPrefix(indexRebuild.Attr) \o <<tokIdentifier(name)>>
                      \in Range(indexRebuild.dropped)
               /\ splitTwin(IndexPrefix(indexRebuild.Attr) \o <<tokIdentifier(name)>>)
                      \in Range(indexRebuild.dropped)
               /\ \A key \in tokenizerKeys(name) : droppedKey(key)

\* Two indexed schemas of one value type: term is dropped from the schema,
\* exact stays, and the count index is dropped as well.
C34_Witness ==
    /\ Decided
    /\ prevIndexed /\ currIndexed /\ sameValueType
    /\ oldTokens = {"term", "exact"} /\ newTokens = {"exact"}
    /\ indexRebuild.tokInfo.tokenizersToDelete = <<"term">>
    /\ indexRebuild.countOp = "delete"
    /\ Len(indexRebuild.dropped) = 4
    /\ \A key \in tokenizerKeys("exact") : ~droppedKey(key)

(***************************************************************************)
(* File number claims                                                      *)
(***************************************************************************)
\* The spills that have got their file number.
OpenedSpills == {t \in spills : t.at \notin {"sort", "open"}}

\* C35: no two spills obtain the same file number, so every spill that has
\* opened its file still owns it and no map file is overwritten (there are
\* as many files as numbers handed out); and within one shard the file
\* numbers strictly increase in the order in which the shard's spills were
\* triggered.
C35_FileNumbers ==
    /\ \A t1 \in OpenedSpills, t2 \in OpenedSpills : t1 # t2 => t1.num # t2.num
    /\ \A f1 \in DOMAIN files, f2 \in DOMAIN files :
           f1 # f2 => f1[2] # f2[2] /\ files[f1].spill # files[f2].spill
    /\ \A t \in OpenedSpills :
           /\ <<t.shard, t.num>> \in DOMAIN files
           /\ files[<<t.shard, t.num>>].spill = t.id
    /\ Cardinality(DOMAIN files) = mapFileId
    /\ \A f1 \in DOMAIN files, f2 \in DOMAIN files :
           (f1[1] = f2[1] /\ files[f1].spill < files[f2].spill) => f1[2] < f2[2]

\* Two spills of different shards hold their files at the same time while
\* one of the shards has an earlier file as well.
C35_Witness ==
    /\ \E t1 \in OpenedSpills, t2 \in OpenedSpills : t1.shard # t2.shard
    /\ \E f1 \in DOMAIN files, f2 \in DOMAIN files :
           f1[1] = f2[1] /\ files[f1].spill < files[f2].spill /\ f1[2] < f2[2]

(***************************************************************************)
(* Backward walk claims                                                    *)
(***************************************************************************)
\* C36: the prev_offset decoded from the 16-bit header field of every record
\* but the first equals the offset at which the record before it starts, at
\* every position of a table of the default size of 50 MiB.
C36_PrevOffsetWalk ==
    \A i \in 2..Len(sized.records) :
        Decode(sized.records[i].header, 0).prev = sized.records[i - 1].start

(***************************************************************************)
(* RateLimiter claims                                                      *)
(***************************************************************************)
\* The requests of the calls on ns that have subtracted and will add back.
RECURSIVE sumReq(_)
sumReq(cs) ==
    IF cs = {} THEN 0
    ELSE LET c == CHOOSE x \in cs : TRUE IN c.req + sumReq(cs \ {c})

pendingUndo(ns) == sumReq({c \in limiter.calls : c.ns = ns /\ c.at = "undo"})

\* C37: for each namespace the requests allowed between two consecutive
\* refills sum to at most maxTokens, the available count never exceeds
\* maxTokens, and a rejected Allow has no effect on the count: once its
\* subtraction is added back the count is maxTokens less what was allowed
\* since the last refill.
C37_RateLimit ==
    \A ns \in limiter.present :
        /\ limiter.granted[ns] <= maxTokens
        /\ limiter.tokens[ns] <= maxTokens
        /\ limiter.tokens[ns] + pendingUndo(ns) = maxTokens - limiter.granted[ns]

(***************************************************************************)
(* Reset claims                                                            *)
(***************************************************************************)
\* C38: after Reset the bytes a builder returns depend only on the Adds and
\* the Finish that follow: a builder that built a table before and a builder
\* that did not return identical buffers for the same calls, and the first
\* record added after Reset carries prev_offset 0.
C38_ResetIndependent ==
    /\ (pair.phase \in {"open", "finished"} /\ Len(pair.calls) > 0) =>
           /\ Decode(pair.fresh.buf, 0).prev = 0
           /\ Decode(pair.used.buf, 0).prev = 0
    /\ pair.phase = "finished" => pair.usedOut = pair.freshOut

(***************************************************************************)
(* Delete-all claims                                                       *)
(***************************************************************************)
\* The index entries that point to subject u.
entriesOf(u) == {e \in store.index : e[2] = u}

\* C39: when a delete-all of a subject has been applied to the indexed
\* predicate without an error, the subject has no value left and no index
\* entry of the predicate points to the subject any more.
C39_DeleteAllClearsIndex ==
    (store.last.Op = "DEL" /\ store.last.star /\ ~store.last.err) =>
        /\ store.values[store.last.u] = <<>>
        /\ entriesOf(store.last.u) = {}

(***************************************************************************)
(* BytesBuffer claims                                                      *)
(***************************************************************************)
\* C40: after any sequence of Slice and TruncateBy calls Length() is the
\* number of bytes handed out by Slice less the bytes truncated, and it is
\* the number of bytes CopyTo copies, also once the buffer has grown to a
\* second or later chunk.
C40_LengthIsContent ==
    ~bbuf.panic =>
        /\ Length(bbuf.b) = bbuf.handed - bbuf.truncated
        /\ Length(bbuf.b) = CopyTo(bbuf.b)

====
